---- MODULE Spec2Model ----
(***************************************************************************)
(* Notebook rendering pipeline of the blog: the structural validator       *)
(* (lib/notebook/validator), the visibility resolver (CodeCell), the       *)
(* notebook renderer's visibility state and the error boundaries.          *)
(***************************************************************************)
EXTENDS Integers, Sequences, FiniteSets, TLC

VARIABLES
    doc,          \* the parsed-JSON value handed to validateNotebook
    vpc,          \* "input" | "validated" | "rejected" | "handed"
    verr,         \* outcome of validateNotebook: the error thrown, or OkResult
    downstream,   \* outcome of each downstream component on a validated doc
    cells,        \* NotebookRenderer props: notebook.cells
    metadata,     \* NotebookRenderer props: metadata.execute
    rootFault,    \* NotebookRenderer's own render raises (outside every cell boundary)
    phase,        \* "rendering" | "mounted" | "caught" | "fallback" ("idle": no renderer)
    cellCodeVisibility,    \* Map<cellId, boolean> (useState)
    cellOutputVisibility,  \* Map<cellId, boolean> (useState)
    nbBoundary,   \* NotebookErrorBoundary.state
    captured,     \* errors the document boundary has captured so far, in order
    cellErr,      \* positions whose CellErrorBoundary has hasError = true
    outErr        \* per position, the output units whose OutputErrorBoundary has hasError

varsV == <<doc, vpc, verr, downstream>>
varsN == <<cells, metadata, rootFault>>
varsR == <<phase, cellCodeVisibility, cellOutputVisibility, nbBoundary, captured, cellErr, outErr>>

VARIABLES
    cb,            \* CellErrorBoundary.state
    ob,            \* OutputErrorBoundary.state
    nodeEnv        \* process.env.NODE_ENV

VARIABLES
    oOutputs,      \* OutputRenderer props: outputs
    oCellOptions,  \* OutputRenderer props: cellOptions (warning, error)
    oGlobalOptions, \* OutputRenderer props: globalOptions (warning, error)
    oVisible,      \* OutputRenderer props: visible
    opc,           \* "props" | "null" | "rendered" ("idle": no OutputRenderer)
    oFiltered,     \* filteredOutputs
    oMerged,       \* mergedOutputs
    oRendered      \* per merged output, what renderOutput returned

VARIABLES
    tCells,        \* generateTableOfContents argument: notebook.cells
    tpc,           \* "args" | "returned" ("idle": no call)
    tEntries,      \* TocEntry objects in creation order
    tToc           \* toc: the root entries returned

VARIABLES
    mSlug,         \* the slug of the project (content.metadata.slug)
    mContent,      \* content.notebookData.cells as loaded
    mCells,        \* the cells of the notebook given to extractMetadata and to the renderer
    mpc,           \* "content" | "stripped" | "extracted" | "rendered"; "args" | "returned"; "threw"
    mMetadata,     \* the ExtractedMetadata returned
    mCodeVisibility  \* per code cell position, its initial code visibility

VARIABLES
    tableRows,     \* tableData.rows: the rows parsed from the markdown prop
    disableSorting, \* InteractiveTable props: disableSorting
    sortColumn,    \* useState: sortColumn (NoColumn: null)
    sortDirection, \* useState: sortDirection ("asc" | "desc" | "null")
    currentPage,   \* useState: currentPage
    tableEvent     \* the click handled last (kind, and column or page)

VARIABLES
    hHtml,         \* HtmlOutput props: html, as a sequence of fragments
    hpc,           \* "props" | "rendered" ("idle": no HtmlOutput)
    hRendered      \* what HtmlOutput returned

VARIABLES
    gSource,       \* getCellSource argument: cell.source
    gpc,           \* "args" | "returned" ("idle": no call)
    gResult        \* the string getCellSource returned

VARIABLES
    aCells,        \* NotebookRenderer props: notebook.cells (markdown cells with their headings)
    apc,           \* "props" | "mounted" ("idle": no notebook on the page)
    aEntries,      \* tocEntries: the TocEntry objects in creation order, with their ids
    aDom,          \* the ids of the heading elements of the page, in document order
    aCollapsed,    \* useState: collapsedIds
    aTarget,       \* the heading element scrolled to last (0: none)
    aEvent         \* the click handled last (kind, and entry)

VARIABLES
    ppc,           \* "props" | "mounted" | "unmounting" | "unmounted" ("idle": no PlotlyOutput)
    pRuns,         \* the runs of the effect, oldest first: position, mounted, resizeObserver
    pError,        \* useState: error ("null" or "message")
    pIsLoading,    \* useState: isLoading
    plotlyRef      \* plotlyRef.current is set

varsB == <<cb, ob, nodeEnv>>
varsO == <<oOutputs, oCellOptions, oGlobalOptions, oVisible, opc, oFiltered, oMerged, oRendered>>
varsT == <<tCells, tpc, tEntries, tToc>>
varsM == <<mSlug, mContent, mCells, mpc, mMetadata, mCodeVisibility>>
varsI == <<tableRows, disableSorting, sortColumn, sortDirection, currentPage, tableEvent>>
varsH == <<hHtml, hpc, hRendered>>
varsG == <<gSource, gpc, gResult>>
varsA == <<aCells, apc, aEntries, aDom, aCollapsed, aTarget, aEvent>>
varsP == <<ppc, pRuns, pError, pIsLoading, plotlyRef>>
\* the state of the components added to the core pipeline
varsAux == <<varsB, varsO, varsT, varsM, varsI, varsH, varsG, varsA, varsP>>
allButB == <<varsV, varsN, varsR, varsO, varsT, varsM, varsI, varsH, varsG, varsA, varsP>>
allButO == <<varsV, varsN, varsR, varsB, varsT, varsM, varsI, varsH, varsG, varsA, varsP>>
allButT == <<varsV, varsN, varsR, varsB, varsO, varsM, varsI, varsH, varsG, varsA, varsP>>
allButM == <<varsV, varsN, varsR, varsB, varsO, varsT, varsI, varsH, varsG, varsA, varsP>>
allButI == <<varsV, varsN, varsR, varsB, varsO, varsT, varsM, varsH, varsG, varsA, varsP>>
allButH == <<varsV, varsN, varsR, varsB, varsO, varsT, varsM, varsI, varsG, varsA, varsP>>
allButG == <<varsV, varsN, varsR, varsB, varsO, varsT, varsM, varsI, varsH, varsA, varsP>>
allButA == <<varsV, varsN, varsR, varsB, varsO, varsT, varsM, varsI, varsH, varsG, varsP>>
allButP == <<varsV, varsN, varsR, varsB, varsO, varsT, varsM, varsI, varsH, varsG, varsA>>
vars == <<varsV, varsN, varsR, varsAux>>

(***************************************************************************)
(* Bounds                                                                  *)
(***************************************************************************)
MaxRawCells == 2
MaxCells == 2
MaxOutputs == 2
MaxAttempts == 2
MaxOutLen == 3
\* lines of the one-cell notebooks given to generateTableOfContents
MaxHeadings == 4
\* cells of the several-cell notebooks given to generateTableOfContents
MaxTocCells == 3
\* characters of a slug
MaxSlugLen == 3
\* directives a front matter sets at once
MaxSetDirectives == 2
\* rows of the largest table
MaxRows == 21
\* fragments of an HTML output
MaxHtmlLen == 3
\* characters of a cell source given as one string
MaxSourceLen == 3
\* fragments of a cell source given as an array
MaxFragments == 3
MaxAnchorHeadings == 3
MaxPlotlyRuns == 3

(***************************************************************************)
(* Untrusted input: JSON values, described by the types validateNotebook   *)
(* inspects.  A field that is not in the object is "absent".               *)
(***************************************************************************)
NbformatValues ==
    {[t |-> "absent", v |-> 0], [t |-> "string", v |-> 0],
     [t |-> "number", v |-> 0], [t |-> "number", v |-> 3],
     [t |-> "number", v |-> 4]}

\* notebook.metadata: absent, null, a non-object, or an object with or
\* without language_info.name / kernelspec.language
MetadataValues ==
    {[t |-> "absent", language_info |-> "absent", kernelspec |-> "absent"],
     [t |-> "null", language_info |-> "absent", kernelspec |-> "absent"],
     [t |-> "string", language_info |-> "absent", kernelspec |-> "absent"],
     [t |-> "object", language_info |-> "absent", kernelspec |-> "absent"],
     [t |-> "object", language_info |-> "r", kernelspec |-> "absent"],
     [t |-> "object", language_info |-> "absent", kernelspec |-> "julia"]}

NullCell ==
    [t |-> "null", cell_type |-> "absent", source |-> "absent",
     outputs |-> "absent", execution_count |-> "absent"]

ObjCell(ct, src, outs, ec) ==
    [t |-> "object", cell_type |-> ct, source |-> src,
     outputs |-> outs, execution_count |-> ec]

\* cell_type: absent, a non-string, or a string ("heading" is the nbformat 3
\* cell type, no longer valid).  source: absent, a string, an array of
\* strings ("strings"), an array with a non-string ("mixed").
RawCells ==
    {NullCell}
    \cup {ObjCell(ct, "string", "absent", "absent") :
             ct \in {"absent", "nonstring", "heading", "raw"}}
    \cup {ObjCell("heading", "absent", "object", "string")}
    \cup {ObjCell("markdown", src, "absent", "absent") :
             src \in {"absent", "string", "strings", "mixed"}}
    \cup {ObjCell("markdown", "string", "object", "string")}
    \cup {ObjCell("code", src, outs, ec) :
             src \in {"string", "mixed"},
             outs \in {"absent", "array", "object"},
             ec \in {"null", "string"}}

RECURSIVE SeqsUpTo(_, _)
SeqsUpTo(S, n) ==
    IF n = 0 THEN {<<>>}
    ELSE LET shorter == SeqsUpTo(S, n - 1)
         IN  shorter \cup {Append(s, x) : s \in {q \in shorter : Len(q) = n - 1}, x \in S}

CellsValues ==
    {[t |-> "absent", v |-> <<>>], [t |-> "string", v |-> <<>>]}
    \cup {[t |-> "array", v |-> s] : s \in SeqsUpTo(RawCells, MaxRawCells)}

NonObjectDocs ==
    {[t |-> k, nbformat |-> [t |-> "absent", v |-> 0],
      cells |-> [t |-> "absent", v |-> <<>>],
      metadata |-> [t |-> "absent", language_info |-> "absent", kernelspec |-> "absent"]]
        : k \in {"null", "string", "number"}}

ObjectDoc(n, c, m) == [t |-> "object", nbformat |-> n, cells |-> c, metadata |-> m]

(***************************************************************************)
(* Validator                                                               *)
(***************************************************************************)
OkResult == [text |-> "ok", index |-> -1]
Err(text, index) == [text |-> text, index |-> index]

ValidCellTypes == {"code", "markdown", "raw"}

ValidateCell_SourceFirst(c, index) ==
    IF c.t # "object" THEN Err("Cell at index i must be an object", index)
    ELSE IF c.source = "absent"
        THEN Err("Cell at index i is missing required field: source", index)
    ELSE IF c.cell_type = "absent"
        THEN Err("Cell at index i is missing required field: cell_type", index)
    ELSE IF c.cell_type = "nonstring"
        THEN Err("Cell at index i has invalid cell_type: must be a string", index)
    ELSE IF c.cell_type \notin ValidCellTypes
        THEN Err("Cell at index i has invalid cell_type: must be one of code, markdown, raw", index)
    ELSE OkResult

\* validateCell(cell, index): the error it throws, or OkResult
ValidateCell(c, index) ==
    IF c.t # "object" THEN Err("Cell at index i must be an object", index)
    ELSE IF c.cell_type = "absent"
        THEN Err("Cell at index i is missing required field: cell_type", index)
    ELSE IF c.cell_type = "nonstring"
        THEN Err("Cell at index i has invalid cell_type: must be a string", index)
    ELSE IF c.cell_type \notin ValidCellTypes
        THEN Err("Cell at index i has invalid cell_type: must be one of code, markdown, raw", index)
    ELSE IF c.source = "absent"
        THEN Err("Cell at index i is missing required field: source", index)
    ELSE IF c.source \notin {"string", "strings"}
        THEN Err("Cell at index i has invalid source field", index)
    ELSE IF c.cell_type = "code" /\ c.outputs # "absent" /\ c.outputs # "array"
        THEN Err("Cell at index i has invalid outputs field: must be an array", index)
    ELSE IF c.cell_type = "code" /\ c.execution_count \notin {"absent", "null", "number"}
        THEN Err("Cell at index i has invalid execution_count", index)
    ELSE OkResult

\* (nb.cells as unknown[]).forEach((cell, index) => validateCell(cell, index)):
\* the first throw ends the loop.  Indexes are 0-based as in the source.
RECURSIVE ValidateCellsFrom(_, _)
ValidateCellsFrom(cs, index) ==
    IF index >= Len(cs) THEN OkResult
    ELSE LET r == ValidateCell(cs[index + 1], index)
         IN  IF r # OkResult THEN r ELSE ValidateCellsFrom(cs, index + 1)

ValidateMetadata(d) ==
    IF d.metadata.t \notin {"absent", "null", "object"}
    THEN Err("Notebook metadata field must be an object", -1)
    ELSE OkResult

\* a variant that looks at metadata before it looks at the cells
ValidateCellsField_MetadataFirst(d) ==
    IF d.cells.t = "absent" THEN Err("Notebook is missing required field: cells", -1)
    ELSE IF d.cells.t # "array" THEN Err("Notebook cells field must be an array", -1)
    ELSE LET r == ValidateMetadata(d)
         IN  IF r # OkResult THEN r ELSE ValidateCellsFrom(d.cells.v, 0)

ValidateCellsField(d) ==
    IF d.cells.t = "absent" THEN Err("Notebook is missing required field: cells", -1)
    ELSE IF d.cells.t # "array" THEN Err("Notebook cells field must be an array", -1)
    ELSE LET r == ValidateCellsFrom(d.cells.v, 0)
         IN  IF r # OkResult THEN r ELSE ValidateMetadata(d)

ValidateNotebook_CellsBeforeVersion(d) ==
    IF d.t # "object" THEN Err("Notebook must be an object", -1)
    ELSE IF d.nbformat.t = "absent"
        THEN Err("Notebook is missing required field: nbformat", -1)
    ELSE IF d.nbformat.t # "number"
        THEN Err("Notebook nbformat field must be a number", -1)
    ELSE LET r == ValidateCellsField(d)
         IN  IF r # OkResult THEN r
             ELSE IF d.nbformat.v < 4
                THEN Err("Notebook nbformat must be 4 or greater", -1)
             ELSE OkResult

\* validateNotebook(notebook): the error it throws, or OkResult
ValidateNotebook(d) ==
    IF d.t # "object" THEN Err("Notebook must be an object", -1)
    ELSE IF d.nbformat.t = "absent"
        THEN Err("Notebook is missing required field: nbformat", -1)
    ELSE IF d.nbformat.t # "number"
        THEN Err("Notebook nbformat field must be a number", -1)
    ELSE IF d.nbformat.v < 4
        THEN Err("Notebook nbformat must be 4 or greater", -1)
    ELSE ValidateCellsField(d)

\* isValidNotebook(obj): try { validateNotebook(obj); return true } catch { return false }
IsValidNotebook(d) == ValidateNotebook(d) = OkResult

(***************************************************************************)
(* Downstream components, by the property accesses that can raise a        *)
(* TypeError on a value that is not really a Notebook.                     *)
(***************************************************************************)
\* notebook.metadata.language_info?.name, notebook.metadata.kernelspec?.language
GetNotebookLanguage(d) ==
    IF d.t # "object" \/ d.metadata.t \in {"absent", "null"} THEN "TypeError"
    ELSE IF d.metadata.language_info # "absent" THEN d.metadata.language_info
    ELSE IF d.metadata.kernelspec # "absent" THEN d.metadata.kernelspec
    ELSE "python"

\* notebook.cells[0]; parseQuartoFrontmatter: source.trim() on the joined source
ExtractMetadataOutcome(d) ==
    IF d.t # "object" \/ d.cells.t = "absent" THEN "TypeError"
    ELSE IF d.cells.t # "array" \/ Len(d.cells.v) = 0 THEN "ok"
    ELSE LET first == d.cells.v[1]
         IN  IF first.t = "object" /\ first.cell_type \in {"raw", "markdown"}
                /\ first.source \notin {"string", "strings", "mixed"}
             THEN "TypeError" ELSE "ok"

\* notebook.cells.forEach((cell, i) => ... cell.cell_type / cell.id ...)
CellsWalkOutcome(d) ==
    IF d.t # "object" \/ d.cells.t # "array" THEN "TypeError"
    ELSE IF \E i \in 1..Len(d.cells.v) : d.cells.v[i].t # "object" THEN "TypeError"
    ELSE "ok"

GenerateTableOfContentsOutcome(d) == CellsWalkOutcome(d)

InitialVisibilityOutcome(d) == CellsWalkOutcome(d)

NoDownstream == [language |-> "none", metadata |-> "none", toc |-> "none", visibility |-> "none"]

(***************************************************************************)
(* Notebook model handed to the renderer.  Option values are "unset"       *)
(* (the key is not in the metadata), "true", "false", and for code-fold    *)
(* also "show" and "hide".  An id is a string, modelled by its tokens:     *)
(* <<"a">> is the explicit id "a", <<"cell", "code", 1>> is "cell-code-1". *)
(***************************************************************************)
NoId == <<>>
IdA == <<"a">>

TriState == {"unset", "true", "false"}
CodeFoldValues == {"unset", "true", "false", "show", "hide"}

\* one cell output: a stream (stdout / stderr), an error, or a display_data
\* whose text/html payload is html (<<>>: no HTML payload); throws: the
\* renderer component of this output raises when it renders
Output(ot, nm, h, th) == [output_type |-> ot, name |-> nm, html |-> h, throws |-> th]
Stdout == Output("stream", "stdout", <<>>, FALSE)

Cell(ct, id, echo, cf, out, inc, warn, err, outs, th) ==
    [cell_type |-> ct, id |-> id, echo |-> echo, codefold |-> cf, output |-> out,
     include |-> inc, warning |-> warn, error |-> err, outputs |-> outs, throws |-> th]

Execute(echo, out, inc, warn, err) ==
    [echo |-> echo, output |-> out, include |-> inc, warning |-> warn, error |-> err]

(***************************************************************************)
(* lib/notebook/utils                                                      *)
(***************************************************************************)
\* generateCellId(cell, index)
GenerateCellId(cell, index) ==
    IF cell.id # NoId THEN cell.id ELSE <<"cell", cell.cell_type, index>>

(***************************************************************************)
(* Map<string, boolean>                                                    *)
(***************************************************************************)
EmptyMap == <<>>
MapSet(m, k, v) == [x \in (DOMAIN m) \cup {k} |-> IF x = k THEN v ELSE m[x]]
\* map.get(k) ?? dflt
MapGet(m, k, dflt) == IF k \in DOMAIN m THEN m[k] ELSE dflt

(***************************************************************************)
(* CodeCell                                                                *)
(***************************************************************************)
\* cellOptions.x !== undefined ? cellOptions.x : globalOptions.x !== undefined ? globalOptions.x : true
Cascade(c, g) ==
    IF c # "unset" THEN c = "true" ELSE IF g # "unset" THEN g = "true" ELSE TRUE

\* const include = ...; if (!include) return null
Include(cell, g) == Cascade(cell.include, g.include)

\* const echo = ...; const shouldRenderCode = echo !== false
ShouldRenderCode(cell, g) == Cascade(cell.echo, g.echo)

\* cellOptions.output !== false && cell.outputs && cell.outputs.length > 0
ShouldRenderOutput(cell) == cell.output # "false" /\ Len(cell.outputs) > 0

\* a variant that treats every explicit code-fold value as collapsible
IsCollapsible_AnyCodeFold(cell) == cell.codefold # "unset"

IsCollapsible(cell) == cell.codefold \in {"true", "show", "hide"}

DetermineInitialCodeVisibility(cellOptions, globalOptions) ==
    IF cellOptions.echo = "false" THEN FALSE
    ELSE IF cellOptions.codefold = "hide" THEN FALSE
    ELSE IF cellOptions.codefold = "show" \/ cellOptions.codefold = "true" THEN TRUE
    ELSE IF globalOptions.echo = "false" THEN FALSE
    ELSE TRUE

DetermineInitialOutputVisibility(cellOptions, globalOptions) ==
    IF cellOptions.output = "false" THEN FALSE
    ELSE IF globalOptions.output = "false" THEN FALSE
    ELSE TRUE

(***************************************************************************)
(* OutputRenderer                                                          *)
(***************************************************************************)
ShouldShowWarnings(cell, g) == Cascade(cell.warning, g.warning)
ShouldShowErrors(cell, g) == Cascade(cell.error, g.error)

\* a variant that drops every stream when warnings are off
KeepOutput_DropsAllStreams(o, showWarnings, showErrors) ==
    /\ ~(~showWarnings /\ o.output_type = "stream")
    /\ ~(~showErrors /\ o.output_type = "error")

KeepOutput(o, showWarnings, showErrors) ==
    /\ ~(~showWarnings /\ o.output_type = "stream" /\ o.name = "stderr")
    /\ ~(~showErrors /\ o.output_type = "error")

FilteredOutputs(outputs, showWarnings, showErrors) ==
    SelectSeq(outputs, LAMBDA o : KeepOutput(o, showWarnings, showErrors))

\* (display_data | execute_result) && output.data?.['text/html']
IsHtmlOutput(o) == o.output_type \in {"display_data", "execute_result"} /\ o.html # <<>>

\* the while loop over filteredOutputs: an HTML output followed by an HTML
\* output becomes one output carrying both payloads, and the loop skips two
RECURSIVE MergedFrom(_, _)
MergedFrom(filtered, i) ==
    IF i > Len(filtered) THEN <<>>
    ELSE IF IsHtmlOutput(filtered[i]) /\ i + 1 <= Len(filtered) /\ IsHtmlOutput(filtered[i + 1])
        THEN <<[filtered[i] EXCEPT !.html = filtered[i].html \o filtered[i + 1].html,
                                   !.throws = filtered[i].throws \/ filtered[i + 1].throws]>>
             \o MergedFrom(filtered, i + 2)
    ELSE <<filtered[i]>> \o MergedFrom(filtered, i + 1)

MergedOutputs(cell, g) ==
    MergedFrom(FilteredOutputs(cell.outputs, ShouldShowWarnings(cell, g), ShouldShowErrors(cell, g)), 1)

(***************************************************************************)
(* NotebookRenderer                                                        *)
(***************************************************************************)
\* the code branch of initialVisibility's forEach body
InitialCodeVisible(cell, md) ==
    IF cell.echo = "false" THEN FALSE
    ELSE IF cell.codefold = "hide" THEN FALSE
    ELSE IF cell.codefold = "show" \/ cell.codefold = "true" THEN TRUE
    ELSE IF md.echo = "false" THEN FALSE
    ELSE TRUE

InitialOutputVisible(cell, md) ==
    IF cell.output = "false" THEN FALSE
    ELSE IF md.output = "false" THEN FALSE
    ELSE TRUE

\* notebook.cells.forEach((cell, index) => { if code: map.set(generateCellId(cell, index), v) })
\* vals[index + 1] is the value set for the cell at index
RECURSIVE SetCodeCells(_, _, _, _)
SetCodeCells(cs, index, map, vals) ==
    IF index >= Len(cs) THEN map
    ELSE LET cell == cs[index + 1]
         IN  IF cell.cell_type = "code"
             THEN SetCodeCells(cs, index + 1,
                               MapSet(map, GenerateCellId(cell, index), vals[index + 1]), vals)
             ELSE SetCodeCells(cs, index + 1, map, vals)

InitialVisibility(cs, md) ==
    [codeVisMap |->
        SetCodeCells(cs, 0, EmptyMap, [i \in 1..Len(cs) |-> InitialCodeVisible(cs[i], md)]),
     outputVisMap |->
        SetCodeCells(cs, 0, EmptyMap, [i \in 1..Len(cs) |-> InitialOutputVisible(cs[i], md)])]

\* allCodeVisible / allOutputVisible: every() runs over the filtered code
\* cells, so the index given to generateCellId is the index among code cells
AllVisible(cs, map) ==
    LET codeCells == SelectSeq(cs, LAMBDA c : c.cell_type = "code")
    IN  IF Len(codeCells) = 0 THEN TRUE
        ELSE \A k \in 1..Len(codeCells) :
                MapGet(map, GenerateCellId(codeCells[k], k - 1), TRUE)

\* a variant that negates each entry on its own
ToggleAll_FlipEach(cs, map) ==
    SetCodeCells(cs, 0, map,
                 [i \in 1..Len(cs) |-> ~MapGet(map, GenerateCellId(cs[i], i - 1), TRUE)])

\* handleToggleAllCode / handleToggleAllOutput: the new map
ToggleAll(cs, map) ==
    LET newVisibility == ~AllVisible(cs, map)
    IN  SetCodeCells(cs, 0, map, [i \in 1..Len(cs) |-> newVisibility])

\* the props NotebookRenderer passes to the CodeCell at position i (1-based here)
CellId(i) == GenerateCellId(cells[i], i - 1)
CodeVisible(i) == MapGet(cellCodeVisibility, CellId(i), TRUE)
OutputVisible(i) == MapGet(cellOutputVisibility, CellId(i), TRUE)
GlobalOptions == metadata

(***************************************************************************)
(* Rendering: each markdown or code cell is the child of its own           *)
(* CellErrorBoundary, each merged output the child of its own              *)
(* OutputErrorBoundary; raw cells render nothing.                          *)
(***************************************************************************)
Positions == 1..Len(cells)
Wrapped == {i \in Positions : cells[i].cell_type # "raw"}

\* a variant without per-cell isolation: one throwing cell takes every cell down
RenderCells_NoIsolation(oldErr) ==
    IF \E i \in Wrapped : cells[i].throws THEN Wrapped ELSE oldErr

\* positions whose boundary is in its error state after a render pass
RenderCells(oldErr) == oldErr \cup {i \in Wrapped : cells[i].throws}

\* the OutputErrorBoundaries of position i that are in their error state
\* after a render pass in which the output map is outMap
RenderOutputs(i, newCellErr, outMap) ==
    LET cell == cells[i]
        units == MergedOutputs(cell, GlobalOptions)
    IN  IF \/ i \in newCellErr
           \/ cell.cell_type # "code"
           \/ ~Include(cell, GlobalOptions)
           \/ ~ShouldRenderOutput(cell)
           \/ ~MapGet(outMap, CellId(i), TRUE)
        THEN {}
        ELSE {k \in 1..Len(units) : units[k].throws}

\* what is on screen at position i
CellView(i) ==
    IF i \notin Wrapped THEN "nothing"
    ELSE IF i \in cellErr THEN "placeholder"
    ELSE "cell"

\* the cell at position i renders its content (not a placeholder, not null)
CellRendered(i) ==
    /\ phase = "mounted" /\ CellView(i) = "cell"
    /\ cells[i].cell_type = "code" => Include(cells[i], GlobalOptions)

\* the per-cell "Hide code / Show code" button is on screen
CodeToggleOffered(i) ==
    /\ cells[i].cell_type = "code" /\ CellRendered(i)
    /\ ShouldRenderCode(cells[i], GlobalOptions)
    /\ IsCollapsible(cells[i])

\* the per-cell "Hide output / Show output" button is on screen
OutputToggleOffered(i) ==
    /\ cells[i].cell_type = "code" /\ CellRendered(i)
    /\ ShouldRenderOutput(cells[i])
    /\ IsCollapsible(cells[i])

\* the code block of position i is on screen
CodeDisplayed(i) ==
    /\ cells[i].cell_type = "code" /\ CellRendered(i)
    /\ ShouldRenderCode(cells[i], GlobalOptions)
    /\ CodeVisible(i)

\* the outputs of position i are on screen
OutputDisplayed(i) ==
    /\ cells[i].cell_type = "code" /\ CellRendered(i)
    /\ ShouldRenderOutput(cells[i])
    /\ OutputVisible(i)

(***************************************************************************)
(* NotebookErrorBoundary                                                   *)
(***************************************************************************)
\* error: 0 is null, n is the n-th Error object the boundary captured;
\* errorInfo: 0 is null, n is the component stack reported with error n
NoBoundaryError == [hasError |-> FALSE, error |-> 0, errorInfo |-> 0]


(***************************************************************************)
(* Notebooks the renderer is given                                         *)
(***************************************************************************)
NoExecute == Execute("unset", "unset", "unset", "unset", "unset")

\* a markdown cell whose render raises
ThrowingMarkdown ==
    Cell("markdown", NoId, "unset", "unset", "unset", "unset", "unset", "unset", <<>>, TRUE)

\* cells that differ in type, identity, collapsibility and failure
MixedCells ==
    {Cell("markdown", id, "unset", "unset", "unset", "unset", "unset", "unset", <<>>, FALSE) :
        id \in {NoId, IdA}}
    \cup {ThrowingMarkdown}
    \cup {Cell("raw", NoId, "unset", "unset", "unset", "unset", "unset", "unset", <<>>, FALSE)}
    \cup {Cell("code", id, "unset", cf, "unset", "unset", "unset", "unset", <<Stdout>>, FALSE) :
        id \in {NoId, IdA}, cf \in {"unset", "true", "hide"}}
    \cup {Cell("code", NoId, "unset", "true", "unset", "unset", "unset", "unset", <<Stdout>>, TRUE)}

\* one code cell, every combination of the visibility directives
OptionCells ==
    {Cell("code", NoId, e, cf, o, inc, "unset", "unset", outs, FALSE) :
        e \in TriState, cf \in CodeFoldValues, o \in TriState, inc \in TriState,
        outs \in {<<>>, <<Stdout>>}}

OutputValues ==
    {Stdout,
     Output("stream", "stdout", <<>>, TRUE),
     Output("stream", "stderr", <<>>, FALSE),
     Output("error", "-", <<>>, FALSE),
     Output("display_data", "-", <<>>, FALSE),
     Output("display_data", "-", <<"h1">>, FALSE),
     Output("display_data", "-", <<"h1">>, TRUE),
     Output("display_data", "-", <<"h2">>, FALSE)}

\* one collapsible code cell with outputs
OutputCells ==
    {Cell("code", NoId, "unset", "true", "unset", "unset", w, er, outs, FALSE) :
        w \in TriState, er \in {"unset", "true"},
        outs \in SeqsUpTo(OutputValues, MaxOutputs) \ {<<>>}}

NotMounted ==
    /\ cellCodeVisibility = EmptyMap
    /\ cellOutputVisibility = EmptyMap
    /\ nbBoundary = NoBoundaryError
    /\ captured = 0
    /\ cellErr = {}
    /\ outErr = <<>>

InitValidator ==
    /\ doc \in {d \in NonObjectDocs : d.t = "null"}
    /\ vpc = "idle"
    /\ verr = OkResult
    /\ downstream = NoDownstream

\* sortColumn === null
NoColumn == -1
\* no click handled yet
NoEvent == [kind |-> "none", arg |-> 0]

\* HtmlOutput has not returned
NothingRendered == [kind |-> "none", sandbox |-> {}, markup |-> <<>>]

\* cell.source given as one string
SourceString(s) == [form |-> "string", str |-> s, fragments |-> <<>>]
\* cell.source given as an array of strings
SourceArray(fs) == [form |-> "array", str |-> <<>>, fragments |-> fs]

\* components that are not running
IdleB ==
    /\ cb = "idle"
    /\ ob = "idle"
    /\ nodeEnv = "production"

IdleO ==
    /\ oOutputs = <<>> /\ oCellOptions = "idle" /\ oGlobalOptions = "idle"
    /\ oVisible = FALSE /\ opc = "idle"
    /\ oFiltered = <<>> /\ oMerged = <<>> /\ oRendered = <<>>

IdleT ==
    /\ tCells = <<>> /\ tpc = "idle" /\ tEntries = <<>> /\ tToc = <<>>

IdleM ==
    /\ mSlug = <<>> /\ mContent = <<>> /\ mCells = <<>>
    /\ mpc = "idle" /\ mMetadata = <<>> /\ mCodeVisibility = <<>>

IdleI ==
    /\ tableRows = <<>> /\ disableSorting = FALSE
    /\ sortColumn = NoColumn /\ sortDirection = "idle" /\ currentPage = 0
    /\ tableEvent = NoEvent

IdleH ==
    /\ hHtml = <<>> /\ hpc = "idle" /\ hRendered = NothingRendered

IdleG ==
    /\ gSource = SourceString(<<>>) /\ gpc = "idle" /\ gResult = <<>>

IdleA ==
    /\ aCells = <<>> /\ apc = "idle" /\ aEntries = <<>> /\ aDom = <<>>
    /\ aCollapsed = {} /\ aTarget = 0 /\ aEvent = NoEvent

IdleP ==
    /\ ppc = "idle" /\ pRuns = <<>> /\ pError = "null"
    /\ pIsLoading = TRUE /\ plotlyRef = FALSE

IdleAux == IdleB /\ IdleO /\ IdleT /\ IdleM /\ IdleI /\ IdleH /\ IdleG /\ IdleA /\ IdleP

IdleRenderer ==
    /\ cells = <<>> /\ metadata = NoExecute /\ rootFault = FALSE
    /\ phase = "idle"
    /\ NotMounted

IdleBOthers == InitValidator /\ IdleRenderer /\ IdleO /\ IdleT /\ IdleM /\ IdleI /\ IdleH /\ IdleG /\ IdleA /\ IdleP
IdleOOthers == InitValidator /\ IdleRenderer /\ IdleB /\ IdleT /\ IdleM /\ IdleI /\ IdleH /\ IdleG /\ IdleA /\ IdleP
IdleTOthers == InitValidator /\ IdleRenderer /\ IdleB /\ IdleO /\ IdleM /\ IdleI /\ IdleH /\ IdleG /\ IdleA /\ IdleP
IdleMOthers == InitValidator /\ IdleRenderer /\ IdleB /\ IdleO /\ IdleT /\ IdleI /\ IdleH /\ IdleG /\ IdleA /\ IdleP
IdleIOthers == InitValidator /\ IdleRenderer /\ IdleB /\ IdleO /\ IdleT /\ IdleM /\ IdleH /\ IdleG /\ IdleA /\ IdleP
IdleHOthers == InitValidator /\ IdleRenderer /\ IdleB /\ IdleO /\ IdleT /\ IdleM /\ IdleI /\ IdleG /\ IdleA /\ IdleP
IdleGOthers == InitValidator /\ IdleRenderer /\ IdleB /\ IdleO /\ IdleT /\ IdleM /\ IdleI /\ IdleH /\ IdleA /\ IdleP
IdleAOthers == InitValidator /\ IdleRenderer /\ IdleB /\ IdleO /\ IdleT /\ IdleM /\ IdleI /\ IdleH /\ IdleG /\ IdleP
IdlePOthers == InitValidator /\ IdleRenderer /\ IdleB /\ IdleO /\ IdleT /\ IdleM /\ IdleI /\ IdleH /\ IdleG /\ IdleA

\* <NotebookErrorBoundary><NotebookRenderer notebook metadata /></NotebookErrorBoundary>
\* constructed, children not yet rendered
Init ==
    /\ InitValidator
    /\ IdleAux
    /\ \/ /\ cells \in SeqsUpTo(MixedCells, MaxCells)
          /\ \E e \in {"true", "false"}, o \in {"true", "false"} :
                metadata = Execute(e, o, "unset", "unset", "unset")
          /\ rootFault = FALSE
       \/ /\ cells \in SeqsUpTo(MixedCells, 1)
          /\ metadata = NoExecute
          /\ rootFault = TRUE
       \/ /\ \E c \in OptionCells : cells = <<c>>
          /\ \E e \in TriState, o \in TriState, inc \in TriState :
                metadata = Execute(e, o, inc, "unset", "unset")
          /\ rootFault = FALSE
       \/ /\ \E c \in OutputCells, before \in {<<>>, <<ThrowingMarkdown>>} :
                cells = before \o <<c>>
          /\ \E w \in {"unset", "false"}, er \in {"unset", "false"} :
                metadata = Execute("unset", "unset", "unset", w, er)
          /\ rootFault = FALSE
    /\ phase = "rendering"
    /\ NotMounted

AllOutErr(newCellErr, outMap) == [i \in Positions |-> RenderOutputs(i, newCellErr, outMap)]

\* first render of NotebookRenderer: useState(initialVisibility...), then the cells
MountOk ==
    /\ phase = "rendering"
    /\ ~rootFault
    /\ phase' = "mounted"
    /\ cellCodeVisibility' = InitialVisibility(cells, metadata).codeVisMap
    /\ cellOutputVisibility' = InitialVisibility(cells, metadata).outputVisMap
    /\ cellErr' = RenderCells({})
    /\ outErr' = AllOutErr(cellErr', cellOutputVisibility')
    /\ UNCHANGED <<nbBoundary, captured, varsN, varsV, varsAux>>

\* rendering raises outside every cell boundary: getDerivedStateFromError
MountThrows ==
    /\ phase = "rendering"
    /\ rootFault
    /\ captured < MaxAttempts
    /\ captured' = captured + 1
    /\ nbBoundary' = [nbBoundary EXCEPT !.hasError = TRUE, !.error = captured']
    /\ phase' = "caught"
    /\ UNCHANGED <<cellCodeVisibility, cellOutputVisibility, cellErr, outErr, varsN, varsV, varsAux>>

\* componentDidCatch: this.setState({ errorInfo })
ComponentDidCatch ==
    /\ phase = "caught"
    /\ nbBoundary' = [nbBoundary EXCEPT !.errorInfo = nbBoundary.error]
    /\ phase' = "fallback"
    /\ UNCHANGED <<cellCodeVisibility, cellOutputVisibility, captured, cellErr, outErr, varsN, varsV, varsAux>>

\* a variant of handleReset that clears the flag but keeps the captured error
HandleReset_KeepsError ==
    /\ phase = "fallback"
    /\ nbBoundary' = [nbBoundary EXCEPT !.hasError = FALSE]
    /\ phase' = "rendering"
    /\ UNCHANGED <<cellCodeVisibility, cellOutputVisibility, captured, cellErr, outErr, varsN, varsV, varsAux>>

\* "Try Again": handleReset, after which the children are rendered again
HandleReset ==
    /\ phase = "fallback"
    /\ nbBoundary' = [hasError |-> FALSE, error |-> 0, errorInfo |-> 0]
    /\ phase' = "rendering"
    /\ UNCHANGED <<cellCodeVisibility, cellOutputVisibility, captured, cellErr, outErr, varsN, varsV, varsAux>>

\* CodeCell.handleCodeToggle -> handleCellCodeVisibilityChange(cellId, !codeVisible)
HandleCodeToggle(i) ==
    /\ CodeToggleOffered(i)
    /\ cellCodeVisibility' = MapSet(cellCodeVisibility, CellId(i), ~CodeVisible(i))
    /\ cellErr' = RenderCells(cellErr)
    /\ outErr' = AllOutErr(cellErr', cellOutputVisibility)
    /\ UNCHANGED <<cellOutputVisibility, phase, nbBoundary, captured, varsN, varsV, varsAux>>

\* CodeCell.handleOutputToggle -> handleCellOutputVisibilityChange(cellId, !outputVisible)
HandleOutputToggle(i) ==
    /\ OutputToggleOffered(i)
    /\ cellOutputVisibility' = MapSet(cellOutputVisibility, CellId(i), ~OutputVisible(i))
    /\ cellErr' = RenderCells(cellErr)
    /\ outErr' = AllOutErr(cellErr', cellOutputVisibility')
    /\ UNCHANGED <<cellCodeVisibility, phase, nbBoundary, captured, varsN, varsV, varsAux>>

\* the controls are rendered only for a notebook that has cells
ControlsOffered == phase = "mounted" /\ Len(cells) > 0

HandleToggleAllCode ==
    /\ ControlsOffered
    /\ cellCodeVisibility' = ToggleAll(cells, cellCodeVisibility)
    /\ cellErr' = RenderCells(cellErr)
    /\ outErr' = AllOutErr(cellErr', cellOutputVisibility)
    /\ UNCHANGED <<cellOutputVisibility, phase, nbBoundary, captured, varsN, varsV, varsAux>>

HandleToggleAllOutput ==
    /\ ControlsOffered
    /\ cellOutputVisibility' = ToggleAll(cells, cellOutputVisibility)
    /\ cellErr' = RenderCells(cellErr)
    /\ outErr' = AllOutErr(cellErr', cellOutputVisibility')
    /\ UNCHANGED <<cellCodeVisibility, phase, nbBoundary, captured, varsN, varsV, varsAux>>

Next ==
    \/ MountOk
    \/ MountThrows
    \/ ComponentDidCatch
    \/ HandleReset
    \/ \E i \in Positions : HandleCodeToggle(i)
    \/ \E i \in Positions : HandleOutputToggle(i)
    \/ HandleToggleAllCode
    \/ HandleToggleAllOutput

Spec == Init /\ [][Next]_vars

(***************************************************************************)
(* Validation pipeline                                                     *)
(***************************************************************************)
InitValidate ==
    /\ \/ doc \in NonObjectDocs
       \/ \E n \in NbformatValues, c \in CellsValues, m \in MetadataValues :
              doc = ObjectDoc(n, c, m)
    /\ vpc = "input"
    /\ verr = OkResult
    /\ downstream = NoDownstream
    /\ IdleRenderer
    /\ IdleAux

\* parseNotebookFromString after JSON.parse: validateNotebook(parsed)
Validate ==
    /\ vpc = "input"
    /\ verr' = ValidateNotebook(doc)
    /\ vpc' = IF verr' = OkResult THEN "validated" ELSE "rejected"
    /\ UNCHANGED <<doc, downstream, varsN, varsR, varsAux>>

\* the validated notebook is handed to the renderer and the extractor
HandOver ==
    /\ vpc = "validated"
    /\ downstream' = [language |-> GetNotebookLanguage(doc),
                      metadata |-> ExtractMetadataOutcome(doc),
                      toc |-> GenerateTableOfContentsOutcome(doc),
                      visibility |-> InitialVisibilityOutcome(doc)]
    /\ vpc' = "handed"
    /\ UNCHANGED <<doc, verr, varsN, varsR, varsAux>>

NextValidate == Validate \/ HandOver

SpecValidate == InitValidate /\ [][NextValidate]_vars

(***************************************************************************)
(* Claims about the validator                                              *)
(***************************************************************************)
NbformatBelow4(d) == d.t = "object" /\ d.nbformat.t = "number" /\ d.nbformat.v < 4

\* C1: every input whose nbformat is a number less than 4 is rejected with
\* "nbformat must be 4 or greater", whatever its cells and metadata hold,
\* and isValidNotebook returns false for it.
C1_OldFormatRejected ==
    (vpc # "input" /\ NbformatBelow4(doc)) =>
        /\ vpc = "rejected"
        /\ verr = Err("Notebook nbformat must be 4 or greater", -1)
        /\ ~IsValidNotebook(doc)

\* an old-format document whose cells and metadata are themselves malformed
C1_Witness ==
    /\ vpc = "rejected"
    /\ NbformatBelow4(doc)
    /\ doc.metadata.t = "string"
    /\ doc.cells.t = "array" /\ Len(doc.cells.v) > 0 /\ doc.cells.v[1].t = "null"

PassesTopLevel(d) ==
    /\ d.t = "object"
    /\ d.nbformat.t = "number" /\ d.nbformat.v >= 4
    /\ d.cells.t = "array"

\* 0-based positions of the cells whose cell_type is present and is not one
\* of code, markdown, raw
BadTypeIndexes(d) ==
    {i \in 0..(Len(d.cells.v) - 1) :
        /\ d.cells.v[i + 1].t = "object"
        /\ d.cells.v[i + 1].cell_type \notin (ValidCellTypes \cup {"absent"})}

MinOf(S) == CHOOSE x \in S : \A y \in S : x <= y

InvalidCellTypeTexts ==
    {"Cell at index i has invalid cell_type: must be a string",
     "Cell at index i has invalid cell_type: must be one of code, markdown, raw"}

\* C2 as stated: a notebook that passes the top-level checks and has a cell
\* with an invalid cell_type fails with "invalid cell_type" at that cell's index.
C2_AsStated ==
    (vpc # "input" /\ PassesTopLevel(doc) /\ BadTypeIndexes(doc) # {}) =>
        /\ verr.text \in InvalidCellTypeTexts
        /\ verr.index = MinOf(BadTypeIndexes(doc))

\* C2 (amended): when every cell before the lowest-index cell with an
\* invalid cell_type is valid, validation fails with "invalid cell_type" and
\* that cell's index.
C2_FirstInvalidCellType ==
    (/\ vpc # "input" /\ PassesTopLevel(doc) /\ BadTypeIndexes(doc) # {}
     /\ \A j \in 0..(MinOf(BadTypeIndexes(doc)) - 1) :
            ValidateCell(doc.cells.v[j + 1], j) = OkResult) =>
        /\ vpc = "rejected"
        /\ verr.text \in InvalidCellTypeTexts
        /\ verr.index = MinOf(BadTypeIndexes(doc))

\* a valid cell followed by a cell with an invalid cell_type, reported at index 1
C2_Witness ==
    /\ vpc = "rejected" /\ PassesTopLevel(doc)
    /\ BadTypeIndexes(doc) = {1}
    /\ ValidateCell(doc.cells.v[1], 0) = OkResult
    /\ verr.index = 1

\* C3: no downstream component raises a structural exception on a value
\* that validateNotebook accepted.
C3_ValidatedIsSafe ==
    vpc = "handed" =>
        /\ downstream.language # "TypeError"
        /\ downstream.metadata # "TypeError"
        /\ downstream.toc # "TypeError"
        /\ downstream.visibility # "TypeError"

(***************************************************************************)
(* Claims about visibility                                                 *)
(***************************************************************************)
CodePositions == {i \in Positions : cells[i].cell_type = "code"}

\* the state is the one NotebookRenderer starts from
AtLoad ==
    /\ phase = "mounted"
    /\ cellCodeVisibility = InitialVisibility(cells, metadata).codeVisMap
    /\ cellOutputVisibility = InitialVisibility(cells, metadata).outputVisMap

\* no two code cells share an identity
DistinctIds == \A i, j \in CodePositions : i # j => CellId(i) # CellId(j)

\* the five rules, first match wins
FirstMatch(echo, codefold, globalEcho) ==
    IF echo = "false" THEN FALSE
    ELSE IF codefold = "hide" THEN FALSE
    ELSE IF codefold \in {"show", "true"} THEN TRUE
    ELSE IF globalEcho = "false" THEN FALSE
    ELSE TRUE

\* C4: at load, the code-visibility entry of every code cell and the value
\* CodeCell's own resolver computes for it are both the result of the
\* first-match rule on the cell's echo, its code-fold and the global echo.
C4_FirstMatchAtLoad ==
    AtLoad =>
        \A i \in CodePositions :
            /\ CodeVisible(i) = FirstMatch(cells[i].echo, cells[i].codefold, metadata.echo)
            /\ DetermineInitialCodeVisibility(cells[i], metadata)
                  = FirstMatch(cells[i].echo, cells[i].codefold, metadata.echo)

\* cell option if set, else global option if set, else true
Resolved(c, g) == IF c \in {"true", "false"} THEN c = "true"
                  ELSE IF g \in {"true", "false"} THEN g = "true"
                  ELSE TRUE

StderrKept(cell, g) ==
    \E k \in 1..Len(MergedOutputs(cell, g)) :
        MergedOutputs(cell, g)[k].output_type = "stream" /\ MergedOutputs(cell, g)[k].name = "stderr"

ErrorKept(cell, g) ==
    \E k \in 1..Len(MergedOutputs(cell, g)) : MergedOutputs(cell, g)[k].output_type = "error"

\* C5: at load, in a notebook whose code cells have distinct identities, every
\* directive takes effect with its resolved value (cell, then global, then
\* true): the cell is rendered iff include resolves true,
\* its code is shown iff echo resolves true (code-fold apart), its outputs are
\* shown iff output resolves true, stderr streams are kept iff warning
\* resolves true and error outputs are kept iff error resolves true.
C5_SameCascadeEverywhere ==
    (AtLoad /\ DistinctIds) =>
        \A i \in CodePositions \ cellErr :
            /\ CellRendered(i) <=> Resolved(cells[i].include, metadata.include)
            /\ (CellRendered(i) /\ cells[i].codefold = "unset") =>
                  (CodeDisplayed(i) <=> Resolved(cells[i].echo, metadata.echo))
            /\ (CellRendered(i) /\ Len(cells[i].outputs) > 0) =>
                  (OutputDisplayed(i) <=> Resolved(cells[i].output, metadata.output))
            /\ (\E k \in 1..Len(cells[i].outputs) :
                    cells[i].outputs[k].output_type = "stream" /\ cells[i].outputs[k].name = "stderr") =>
                  (StderrKept(cells[i], metadata) <=> Resolved(cells[i].warning, metadata.warning))
            /\ (\E k \in 1..Len(cells[i].outputs) : cells[i].outputs[k].output_type = "error") =>
                  (ErrorKept(cells[i], metadata) <=> Resolved(cells[i].error, metadata.error))

CodeEntry(map, i) == MapGet(map, CellId(i), TRUE)

ToggleStep ==
    \/ \E i \in Positions : HandleCodeToggle(i)
    \/ \E i \in Positions : HandleOutputToggle(i)
    \/ HandleToggleAllCode
    \/ HandleToggleAllOutput

\* C6: a per-cell code toggle on c flips c's code entry and leaves every other
\* code cell's code entry and every output entry as they were; a per-cell
\* output toggle does the same on the output side; and once the notebook is
\* on screen the two maps change only in a toggle step.
C6_ToggleFrame ==
    [][/\ \A i \in Positions : HandleCodeToggle(i) =>
            /\ CodeEntry(cellCodeVisibility', i) = ~CodeEntry(cellCodeVisibility, i)
            /\ \A j \in CodePositions \ {i} :
                  CodeEntry(cellCodeVisibility', j) = CodeEntry(cellCodeVisibility, j)
            /\ \A j \in CodePositions :
                  CodeEntry(cellOutputVisibility', j) = CodeEntry(cellOutputVisibility, j)
       /\ \A i \in Positions : HandleOutputToggle(i) =>
            /\ CodeEntry(cellOutputVisibility', i) = ~CodeEntry(cellOutputVisibility, i)
            /\ \A j \in CodePositions \ {i} :
                  CodeEntry(cellOutputVisibility', j) = CodeEntry(cellOutputVisibility, j)
            /\ \A j \in CodePositions :
                  CodeEntry(cellCodeVisibility', j) = CodeEntry(cellCodeVisibility, j)
       /\ (/\ phase = "mounted"
           /\ <<cellCodeVisibility, cellOutputVisibility>>' # <<cellCodeVisibility, cellOutputVisibility>>)
             => ToggleStep
      ]_vars

\* C7: a toggle-all-code step leaves one and the same value in the code entry
\* of every code cell and does not touch the output map; a toggle-all-output
\* step does the same with the two maps exchanged.
C7_ToggleAllUniform ==
    [][/\ HandleToggleAllCode =>
            /\ \A i, j \in CodePositions :
                  /\ CellId(i) \in DOMAIN cellCodeVisibility'
                  /\ cellCodeVisibility'[CellId(i)] = cellCodeVisibility'[CellId(j)]
            /\ cellOutputVisibility' = cellOutputVisibility
       /\ HandleToggleAllOutput =>
            /\ \A i, j \in CodePositions :
                  /\ CellId(i) \in DOMAIN cellOutputVisibility'
                  /\ cellOutputVisibility'[CellId(i)] = cellOutputVisibility'[CellId(j)]
            /\ cellCodeVisibility' = cellCodeVisibility
      ]_vars

\* two code cells hidden at load, the first without a toggle of its own, both
\* shown: only toggle-all-code shows the first
C7_Witness ==
    /\ phase = "mounted" /\ Len(cells) = 2 /\ CodePositions = {1, 2}
    /\ cells[1].codefold = "unset" /\ cells[2].codefold = "hide"
    /\ cells[1].id = NoId /\ cells[2].id = NoId
    /\ metadata.echo = "false"
    /\ CodeVisible(1) /\ CodeVisible(2)
    /\ cellOutputVisibility = InitialVisibility(cells, metadata).outputVisMap

UnitSize(u) == IF IsHtmlOutput(u) THEN Len(u.html) ELSE 1

RECURSIVE RawCount(_)
RawCount(units) == IF units = <<>> THEN 0 ELSE UnitSize(Head(units)) + RawCount(Tail(units))

Retained(i) ==
    FilteredOutputs(cells[i].outputs, ShouldShowWarnings(cells[i], metadata),
                    ShouldShowErrors(cells[i], metadata))

Units(i) == MergedOutputs(cells[i], metadata)

\* the units of position i that are on screen
UnitsOnScreen(i) ==
    IF OutputDisplayed(i)
    THEN SelectSeq([k \in 1..Len(Units(i)) |-> [u |-> Units(i)[k], k |-> k]],
                   LAMBDA x : x.k \notin outErr[i])
    ELSE <<>>

RECURSIVE RawOnScreen(_)
RawOnScreen(xs) == IF xs = <<>> THEN 0 ELSE UnitSize(Head(xs).u) + RawOnScreen(Tail(xs))

CellsIsolated ==
    /\ \A i \in Positions :
          /\ (cells[i].cell_type \in {"markdown", "code"} /\ cells[i].throws)
                => CellView(i) = "placeholder"
          /\ (cells[i].cell_type \in {"markdown", "code"} /\ ~cells[i].throws)
                => CellView(i) = "cell"
    /\ DOMAIN cellCodeVisibility = {CellId(i) : i \in CodePositions}
    /\ DOMAIN cellOutputVisibility = {CellId(i) : i \in CodePositions}

C10_ManualRetryOnly ==
    [][/\ nbBoundary.hasError =>
            \/ nbBoundary'.hasError /\ nbBoundary'.error = nbBoundary.error
                  /\ phase' \in {"caught", "fallback"}
            \/ HandleReset
       /\ HandleReset =>
            /\ nbBoundary' = [hasError |-> FALSE, error |-> 0, errorInfo |-> 0]
            /\ phase' = "rendering"
            /\ captured' = captured
       /\ (phase = "rendering" /\ phase' = "caught") =>
            /\ nbBoundary'.hasError
            /\ nbBoundary'.error = captured + 1
            /\ nbBoundary'.error # nbBoundary.error
       /\ phase' = "fallback" =>
            /\ nbBoundary'.hasError
            /\ nbBoundary'.error = captured'
            /\ nbBoundary'.errorInfo = captured'
      ]_vars

\* "Try Again" was used, the children raised again, the fallback shows error 2
C10_Witness ==
    /\ phase = "fallback"
    /\ captured = 2
    /\ nbBoundary = [hasError |-> TRUE, error |-> 2, errorInfo |-> 2]

(***************************************************************************)
(* CellErrorBoundary and OutputErrorBoundary, one instance of each         *)
(***************************************************************************)
\* a thrown Error: its message and its stack ("" when empty or undefined)
NullError == [t |-> "null", message |-> "", stack |-> ""]
ThrownError(m, s) == [t |-> "Error", message |-> m, stack |-> s]
ThrownErrors == {ThrownError(m, s) : m \in {"", "m1", "m2"}, s \in {"", "s1"}}

\* error.toString()
ErrorToString(e) == IF e.message = "" THEN <<"Error">> ELSE <<"Error: ", e.message>>
\* error.message || error.toString()
MessageOrToString(e) == IF e.message # "" THEN <<e.message>> ELSE ErrorToString(e)
\* error.stack || error.toString()
StackOrToString(e) == IF e.stack # "" THEN <<e.stack>> ELSE ErrorToString(e)

NoText == <<>>

\* what CellErrorBoundary.render puts on screen while hasError
CellPlaceholder ==
    [message |-> IF cb.error # NullError THEN MessageOrToString(cb.error) ELSE NoText,
     toggle |-> cb.error # NullError \/ cb.errorInfo # "null",
     details |-> IF cb.showDetails /\ cb.error # NullError
                 THEN StackOrToString(cb.error) ELSE NoText,
     componentStack |-> cb.showDetails /\ nodeEnv = "development" /\ cb.errorInfo # "null"]

\* what OutputErrorBoundary.render puts on screen while hasError: no button
OutputPlaceholder ==
    [message |-> IF ob.error # NullError /\ nodeEnv = "development"
                 THEN MessageOrToString(ob.error) ELSE NoText,
     toggle |-> FALSE,
     details |-> NoText]

\* both boundaries constructed, their children rendering
InitBoundary ==
    /\ cb = [hasError |-> FALSE, error |-> NullError, errorInfo |-> "null", showDetails |-> FALSE]
    /\ ob = [hasError |-> FALSE, error |-> NullError]
    /\ nodeEnv \in {"development", "production"}
    /\ IdleBOthers

\* the cell raises: CellErrorBoundary.getDerivedStateFromError
CellGetDerivedStateFromError ==
    /\ ~cb.hasError
    /\ \E e \in ThrownErrors : cb' = [cb EXCEPT !.hasError = TRUE, !.error = e]
    /\ UNCHANGED <<ob, nodeEnv, allButB>>

\* CellErrorBoundary.componentDidCatch, in the same commit
CellComponentDidCatch ==
    /\ cb.hasError /\ cb.errorInfo = "null"
    /\ cb' = [cb EXCEPT !.errorInfo = "componentStack"]
    /\ UNCHANGED <<ob, nodeEnv, allButB>>

\* a click on "Show Details" / "Hide Details"
ToggleDetails ==
    /\ cb.hasError /\ cb.errorInfo # "null"
    /\ CellPlaceholder.toggle
    /\ cb' = [cb EXCEPT !.showDetails = ~cb.showDetails]
    /\ UNCHANGED <<ob, nodeEnv, allButB>>

\* the output raises: OutputErrorBoundary.getDerivedStateFromError, then
\* componentDidCatch, which only logs
OutputGetDerivedStateFromError ==
    /\ ~ob.hasError
    /\ \E e \in ThrownErrors : ob' = [ob EXCEPT !.hasError = TRUE, !.error = e]
    /\ UNCHANGED <<cb, nodeEnv, allButB>>

NextBoundary ==
    \/ CellGetDerivedStateFromError
    \/ CellComponentDidCatch
    \/ ToggleDetails
    \/ OutputGetDerivedStateFromError

SpecBoundary == InitBoundary /\ [][NextBoundary]_vars

\* C11: each of the two boundaries, once in its error state, shows a details
\* toggle; the details are hidden when the error is captured and, while the
\* flag is on, the raw error text is on screen.
C11_BothBoundariesHaveDetails ==
    /\ (cb.hasError /\ cb.errorInfo = "null") => ~cb.showDetails
    /\ (cb.hasError /\ cb.errorInfo # "null") =>
          /\ CellPlaceholder.toggle
          /\ cb.showDetails <=> CellPlaceholder.details # NoText
    /\ ob.hasError => OutputPlaceholder.toggle

(***************************************************************************)
(* OutputRenderer as a function of its props                               *)
(***************************************************************************)
MimeKeys ==
    {"image/png", "image/jpeg", "image/svg+xml", "text/html", "application/json",
     "application/vnd.plotly.v1+json", "application/vnd.jupyter.widget-view+json", "text/plain"}

\* data[key]: the key is not in data, or its value is falsy in JavaScript
\* ("" , 0, false, null), or it is truthy
MimeStates == {"absent", "falsy", "truthy"}

NoData == [k \in MimeKeys |-> "absent"]
DataWith(keys) == [k \in MimeKeys |-> IF k \in keys THEN "truthy" ELSE "absent"]

\* an output with its data; token stands for the text/html payload
DataOutput(ot, nm, hasData, data, token) ==
    [output_type |-> ot, name |-> nm,
     html |-> IF hasData /\ data["text/html"] = "truthy" THEN <<token>> ELSE <<>>,
     throws |-> FALSE, hasData |-> hasData, data |-> data]

\* outputs a cell can carry, for sequences
SeqOutputs ==
    {DataOutput("stream", "stdout", FALSE, NoData, "-"),
     DataOutput("stream", "stderr", FALSE, NoData, "-"),
     DataOutput("error", "-", FALSE, NoData, "-"),
     DataOutput("display_data", "-", TRUE, DataWith({"text/html", "text/plain"}), "h1"),
     DataOutput("execute_result", "-", TRUE, DataWith({"text/html"}), "h2"),
     DataOutput("display_data", "-", TRUE, DataWith({"image/png", "text/html"}), "h3"),
     DataOutput("display_data", "-", TRUE, DataWith({"text/plain"}), "-")}

\* renderOutput(output, ...): the component chosen, and for the fallback
\* notice the keys it lists (Object.keys(data))
Rendered(t) == [t |-> t, keys |-> {}]
RenderOutput(o) ==
    IF o.output_type = "error" THEN Rendered("ErrorOutput")
    ELSE IF o.output_type = "stream" THEN Rendered("TextOutput")
    ELSE IF o.output_type \in {"display_data", "execute_result"} THEN
        IF ~o.hasData THEN Rendered("null")
        ELSE IF \/ o.data["image/png"] = "truthy" \/ o.data["image/jpeg"] = "truthy"
                \/ o.data["image/svg+xml"] = "truthy" THEN Rendered("ImageOutput")
        ELSE IF o.data["text/html"] = "truthy" THEN Rendered("HtmlOutput")
        ELSE IF o.data["application/json"] = "truthy" THEN Rendered("JsonOutput")
        ELSE IF o.data["application/vnd.plotly.v1+json"] = "truthy" THEN Rendered("PlotlyOutput")
        ELSE IF o.data["application/vnd.jupyter.widget-view+json"] = "truthy"
            THEN Rendered("WidgetOutput")
        ELSE IF o.data["text/plain"] = "truthy" THEN Rendered("TextOutput")
        ELSE [t |-> "unsupported", keys |-> {k \in MimeKeys : o.data[k] # "absent"}]
    ELSE Rendered("null")

WarningError(w, e) == [warning |-> w, error |-> e]

\* OutputRenderer constructed with its props, not yet rendered
InitOutputs ==
    /\ \/ /\ oOutputs \in SeqsUpTo(SeqOutputs, MaxOutLen)
          /\ \E w \in {"unset", "false"}, e \in {"unset", "false"} :
                oCellOptions = WarningError(w, e)
          /\ oGlobalOptions = WarningError("unset", "unset")
          /\ oVisible \in BOOLEAN
       \/ /\ oOutputs \in SeqsUpTo(SeqOutputs, 2)
          /\ \E w \in TriState, e \in TriState : oCellOptions = WarningError(w, e)
          /\ \E w \in TriState, e \in TriState : oGlobalOptions = WarningError(w, e)
          /\ oVisible = TRUE
       \/ /\ \E ot \in {"display_data", "execute_result"}, hasData \in BOOLEAN :
             \E d \in [MimeKeys -> MimeStates] :
                /\ hasData \/ d = NoData
                /\ oOutputs = <<DataOutput(ot, "-", hasData, d, "h1")>>
          /\ oCellOptions = WarningError("unset", "unset")
          /\ oGlobalOptions = WarningError("unset", "unset")
          /\ oVisible = TRUE
    /\ opc = "props"
    /\ oFiltered = <<>> /\ oMerged = <<>> /\ oRendered = <<>>
    /\ IdleOOthers

\* one call of OutputRenderer
OutputRendererRender ==
    /\ opc = "props"
    /\ IF ~oVisible \/ Len(oOutputs) = 0
       THEN /\ opc' = "null"
            /\ UNCHANGED <<oFiltered, oMerged, oRendered>>
       ELSE /\ opc' = "rendered"
            /\ oFiltered' = FilteredOutputs(oOutputs,
                                            ShouldShowWarnings(oCellOptions, oGlobalOptions),
                                            ShouldShowErrors(oCellOptions, oGlobalOptions))
            /\ oMerged' = MergedFrom(oFiltered', 1)
            /\ oRendered' = [k \in 1..Len(oMerged') |-> RenderOutput(oMerged'[k])]
    /\ UNCHANGED <<oOutputs, oCellOptions, oGlobalOptions, oVisible, allButO>>

NextOutputs == OutputRendererRender

SpecOutputs == InitOutputs /\ [][NextOutputs]_vars

\* the output is dropped by pre-filtering
Removed(o) ==
    \/ /\ o.output_type = "stream" /\ o.name = "stderr"
       /\ ~Resolved(oCellOptions.warning, oGlobalOptions.warning)
    \/ /\ o.output_type = "error"
       /\ ~Resolved(oCellOptions.error, oGlobalOptions.error)

\* C12: the retained outputs are the given outputs without the stderr streams
\* when warning resolves to false and without the error outputs when error
\* resolves to false, every other output being kept, in the original order.
C12_FilterExactAndOrdered ==
    opc = "rendered" =>
        \E f \in [1..Len(oFiltered) -> 1..Len(oOutputs)] :
            /\ \A i, j \in 1..Len(oFiltered) : i < j => f[i] < f[j]
            /\ \A i \in 1..Len(oFiltered) : oFiltered[i] = oOutputs[f[i]]
            /\ {f[i] : i \in 1..Len(oFiltered)} = {j \in 1..Len(oOutputs) : ~Removed(oOutputs[j])}

\* stderr then stdout given, warnings off by the global option alone: only
\* stdout is retained
C12_Witness ==
    /\ opc = "rendered" /\ Len(oOutputs) = 2
    /\ oOutputs[1].output_type = "stream" /\ oOutputs[1].name = "stderr"
    /\ oOutputs[2].output_type = "stream" /\ oOutputs[2].name = "stdout"
    /\ oCellOptions.warning = "unset" /\ oGlobalOptions.warning = "false"
    /\ oFiltered = <<oOutputs[2]>>

\* every maximal run of adjacent HTML outputs as one payload, every other
\* output as <<>>
RECURSIVE MergeRuns(_, _)
MergeRuns(filtered, i) ==
    IF i > Len(filtered) THEN <<>>
    ELSE IF ~IsHtmlOutput(filtered[i]) THEN <<filtered[i].html>> \o MergeRuns(filtered, i + 1)
    ELSE LET rest == MergeRuns(filtered, i + 1)
         IN  IF i + 1 <= Len(filtered) /\ IsHtmlOutput(filtered[i + 1])
             THEN <<filtered[i].html \o Head(rest)>> \o Tail(rest)
             ELSE <<filtered[i].html>> \o rest

\* C13: after pre-filtering, adjacent HTML outputs are rendered as one unit
\* carrying their payloads in order, whatever the length of the run, and HTML
\* outputs separated by another retained output are separate units.
C13_RunsMergeIntoOneUnit ==
    opc = "rendered" =>
        [k \in 1..Len(oMerged) |-> oMerged[k].html] = MergeRuns(oFiltered, 1)

\* renderers in priority order; the keys that select each
MimePriority ==
    <<[r |-> "ImageOutput", keys |-> {"image/png", "image/jpeg", "image/svg+xml"}],
      [r |-> "HtmlOutput", keys |-> {"text/html"}],
      [r |-> "JsonOutput", keys |-> {"application/json"}],
      [r |-> "PlotlyOutput", keys |-> {"application/vnd.plotly.v1+json"}],
      [r |-> "WidgetOutput", keys |-> {"application/vnd.jupyter.widget-view+json"}],
      [r |-> "TextOutput", keys |-> {"text/plain"}]>>

PresentKeys(o) == {k \in MimeKeys : o.hasData /\ o.data[k] # "absent"}

FirstPresent(o) ==
    LET hits == {n \in 1..Len(MimePriority) : MimePriority[n].keys \cap PresentKeys(o) # {}}
    IN  IF hits = {} THEN [t |-> "unsupported", keys |-> PresentKeys(o)]
        ELSE [t |-> MimePriority[CHOOSE n \in hits : \A m \in hits : n <= m].r, keys |-> {}]

\* C14: every display_data / execute_result unit that has a data field is
\* rendered by the first renderer in priority order one of whose MIME keys is
\* present in its data, or by the notice listing the present keys when there
\* is none; stream units go to the text renderer and error units to the
\* error renderer.
C14_FirstPresentKeyWins ==
    opc = "rendered" =>
        \A k \in 1..Len(oMerged) :
            (oMerged[k].output_type \in {"stream", "error"} \/ oMerged[k].hasData) =>
            oRendered[k] =
                IF oMerged[k].output_type = "stream" THEN [t |-> "TextOutput", keys |-> {}]
                ELSE IF oMerged[k].output_type = "error" THEN [t |-> "ErrorOutput", keys |-> {}]
                ELSE FirstPresent(oMerged[k])

(***************************************************************************)
(* generateTableOfContents (src/lib/notebook/utils.ts)                    *)
(*                                                                         *)
(* A cell is its cell_type and the lines of its source; a line is the     *)
(* number of '#' it starts with before whitespace and text (0: the line   *)
(* does not start with '#').  TocEntry objects are kept in the order they *)
(* are created and referred to by that number: `children` and `toc` hold  *)
(* the numbers of the entries pushed to them.                             *)
(***************************************************************************)

\* line.match(/^(#{1,6})\s+(.+)$/): one to six '#', then whitespace and text
HeadingMatch(hashes) == hashes \in 1..6

TocEntry(level, cellIndex) ==
    [level |-> level, cellIndex |-> cellIndex, children |-> <<>>]

EmptyToc == [entries |-> <<>>, toc |-> <<>>, stack |-> <<>>]

\* mutation of ClosedBy: a heading closes only strictly deeper entries
ClosedBy_DeeperOnly(top, level) == top.level > level

\* stack[stack.length - 1].level >= level
ClosedBy(top, level) == top.level >= level

\* while (stack.length > 0 && stack[stack.length - 1].level >= level) stack.pop()
RECURSIVE PopStack(_, _, _)
PopStack(entries, stack, level) ==
    IF Len(stack) > 0 /\ ClosedBy(entries[stack[Len(stack)]], level)
    THEN PopStack(entries, SubSeq(stack, 1, Len(stack) - 1), level)
    ELSE stack

\* the body of lines.forEach for a line that matches
AddHeading(st, cellIndex, level) ==
    LET stack == PopStack(st.entries, st.stack, level)
        k == Len(st.entries) + 1
        entries == Append(st.entries, TocEntry(level, cellIndex))
    IN  [entries |-> IF Len(stack) = 0
                     THEN entries
                     ELSE [entries EXCEPT ![stack[Len(stack)]].children = Append(@, k)],
         toc     |-> IF Len(stack) = 0 THEN Append(st.toc, k) ELSE st.toc,
         stack   |-> Append(stack, k)]

\* lines.forEach from line j on, in the cell at cellIndex (0-based)
RECURSIVE TocLinesFrom(_, _, _, _)
TocLinesFrom(st, lines, j, cellIndex) ==
    IF j > Len(lines) THEN st
    ELSE TocLinesFrom(IF HeadingMatch(lines[j])
                      THEN AddHeading(st, cellIndex, lines[j])
                      ELSE st,
                      lines, j + 1, cellIndex)

\* notebook.cells.forEach from cell i on (1-based position i, cellIndex i - 1)
RECURSIVE TocCellsFrom(_, _, _)
TocCellsFrom(st, cs, i) ==
    IF i > Len(cs) THEN st
    ELSE TocCellsFrom(IF cs[i].cell_type # "markdown"
                      THEN st
                      ELSE TocLinesFrom(st, cs[i].lines, 1, i - 1),
                      cs, i + 1)

GenerateTableOfContentsOf(cs) == TocCellsFrom(EmptyToc, cs, 1)

TocCell(ct, lines) == [cell_type |-> ct, lines |-> lines]

\* cells used to build notebooks of several cells
TocCellChoices ==
    { TocCell("markdown", <<1>>), TocCell("markdown", <<2>>),
      TocCell("markdown", <<0, 3>>), TocCell("markdown", <<2, 1>>),
      TocCell("markdown", <<7>>), TocCell("markdown", <<>>),
      TocCell("code", <<1>>), TocCell("raw", <<2, 0>>) }

InitToc ==
    /\ \/ \E lines \in SeqsUpTo(1..6, MaxHeadings) :
             tCells = <<TocCell("markdown", lines)>>
       \/ tCells \in SeqsUpTo(TocCellChoices, MaxTocCells)
    /\ tpc = "args"
    /\ tEntries = <<>> /\ tToc = <<>>
    /\ IdleTOthers

\* one call of generateTableOfContents
GenerateTableOfContents ==
    /\ tpc = "args"
    /\ LET st == GenerateTableOfContentsOf(tCells)
       IN  /\ tEntries' = st.entries
           /\ tToc' = st.toc
    /\ tpc' = "returned"
    /\ UNCHANGED <<tCells, allButT>>

NextToc == GenerateTableOfContents

SpecToc == InitToc /\ [][NextToc]_vars

\* the headings of the document, in document order: level and cell
RECURSIVE DocHeadings(_, _)
DocHeadings(cs, i) ==
    IF i > Len(cs) THEN <<>>
    ELSE (IF cs[i].cell_type = "markdown"
          THEN LET hs == SelectSeq(cs[i].lines, LAMBDA h : h \in 1..6)
               IN  [j \in 1..Len(hs) |-> [level |-> hs[j], cellIndex |-> i - 1]]
          ELSE <<>>) \o DocHeadings(cs, i + 1)

\* pre-order traversal of the entries numbered in ids and of their subtrees
RECURSIVE PreOrder(_, _)
PreOrder(entries, ids) ==
    IF ids = <<>> THEN <<>>
    ELSE <<Head(ids)>> \o PreOrder(entries, entries[Head(ids)].children)
                       \o PreOrder(entries, Tail(ids))

\* the entries that have entry k among their children
ParentsOf(entries, k) ==
    {p \in 1..Len(entries) : \E c \in 1..Len(entries[p].children) :
                                 entries[p].children[c] = k}

\* the preceding headings with a strictly smaller level
Shallower(hs, k) == {j \in 1..(k - 1) : hs[j].level < hs[k].level}

MaxOf(S) == CHOOSE m \in S : \A x \in S : x <= m

\* C15: the table of contents is a forest over the document's headings: the
\* parent of an entry is the nearest preceding heading with a strictly
\* smaller level, or the entry is a root when there is none; every child is
\* strictly deeper than its parent; the pre-order traversal lists the
\* headings in document order, each once; cells that are not markdown
\* contribute nothing.
C15_TocIsOutlineForest ==
    tpc = "returned" =>
        LET hs == DocHeadings(tCells, 1)
            n  == Len(hs)
        IN  /\ PreOrder(tEntries, tToc) = [k \in 1..n |-> k]
            /\ Len(tEntries) = n
            /\ \A k \in 1..n :
                  /\ tEntries[k].level = hs[k].level
                  /\ tEntries[k].cellIndex = hs[k].cellIndex
                  /\ IF Shallower(hs, k) = {}
                     THEN /\ ParentsOf(tEntries, k) = {}
                          /\ \E r \in 1..Len(tToc) : tToc[r] = k
                     ELSE /\ ParentsOf(tEntries, k) = {MaxOf(Shallower(hs, k))}
                          /\ \A r \in 1..Len(tToc) : tToc[r] # k
                  /\ \A p \in ParentsOf(tEntries, k) :
                        tEntries[p].level < tEntries[k].level

\* `## B` nested under `# A`, a second `## B2` beside it, `# C` a second
\* root, with a code cell holding '# comment' lines in between
C15_Witness ==
    /\ tpc = "returned"
    /\ \E i \in 1..Len(tCells) : tCells[i].cell_type = "code" /\ tCells[i].lines = <<1>>
    /\ Len(tToc) >= 2
    /\ \E k \in 1..Len(tEntries) : Len(tEntries[k].children) >= 1

\* two same-level siblings under one parent and a later shallower root
C15_WitnessSiblings ==
    /\ tpc = "returned"
    /\ Len(tCells) = 1 /\ tCells[1].lines = <<1, 2, 2, 1>>
    /\ tToc = <<1, 4>>
    /\ tEntries[1].children = <<2, 3>>

(***************************************************************************)
(* extractMetadata, parseQuartoFrontmatter, getDefaultMetadata             *)
(* (src/lib/notebook/utils.ts) and the notebook branch of the project page *)
(*                                                                         *)
(* Strings are sequences of characters.  A cell source is what the code   *)
(* asks of it: how it starts ("dashes": with '---'; "spaceDashes": with   *)
(* whitespace and then '---'; "other"), whether the block between the     *)
(* delimiters is well-formed YAML, and the mapping it holds.  In the      *)
(* mapping, <<>> and "unset" stand for a key that is not there.           *)
(***************************************************************************)
Directives == {"echo", "output", "include", "warning", "error"}
FormatKeys == {"code-fold", "code-tools", "code-line-numbers", "toc", "toc-depth", "toc-title"}

NoFormat == [k \in FormatKeys |-> "unset"]

FrontData(title, featured, hasFormat, format, hasExecute, execute, rootFormat, rootExecute) ==
    [title |-> title, description |-> <<>>, categories |-> <<>>, featured |-> featured,
     hasFormat |-> hasFormat, format |-> format,
     hasExecute |-> hasExecute, execute |-> execute,
     rootFormat |-> rootFormat, rootExecute |-> rootExecute]

EmptyData == FrontData(<<>>, "unset", FALSE, NoFormat, FALSE, NoExecute, NoFormat, NoExecute)

CellSource(starts, yaml, data) == [starts |-> starts, yaml |-> yaml, data |-> data]

PlainSource == CellSource("other", "mapping", EmptyData)

MetaCell(ct, src, echo, cf) ==
    [cell_type |-> ct, source |-> src, echo |-> echo, codefold |-> cf, output |-> "unset"]

\* String.prototype.toUpperCase on one character of the slugs considered
ToUpperCase(c) ==
    IF c = "a" THEN "A" ELSE IF c = "b" THEN "B" ELSE IF c = "u" THEN "U" ELSE c

\* slugStr.split('-'), from character i on, word being the part read so far
RECURSIVE SplitHyphen(_, _, _)
SplitHyphen(s, i, word) ==
    IF i > Len(s) THEN <<word>>
    ELSE IF s[i] = "-" THEN <<word>> \o SplitHyphen(s, i + 1, <<>>)
    ELSE SplitHyphen(s, i + 1, Append(word, s[i]))

\* word.charAt(0).toUpperCase() + word.slice(1)
Capitalize(word) ==
    IF word = <<>> THEN <<>> ELSE <<ToUpperCase(word[1])>> \o Tail(word)

\* words.join(' ')
RECURSIVE JoinSpace(_)
JoinSpace(words) ==
    IF Len(words) = 0 THEN <<>>
    ELSE IF Len(words) = 1 THEN words[1]
    ELSE words[1] \o <<" ">> \o JoinSpace(Tail(words))

Untitled == <<"u", "n", "t", "i", "t", "l", "e", "d">>

DefaultFormat ==
    [k \in FormatKeys |->
        IF k = "toc" THEN "true"
        ELSE IF k = "toc-depth" THEN "3"
        ELSE IF k = "toc-title" THEN "Contents"
        ELSE "false"]

DefaultExecute == Execute("true", "true", "true", "true", "true")

\* getDefaultMetadata(slug)
GetDefaultMetadata(slug) ==
    LET slugStr == IF slug = <<>> THEN Untitled ELSE slug
        words   == SplitHyphen(slugStr, 1, <<>>)
    IN  [title       |-> JoinSpace([w \in 1..Len(words) |-> Capitalize(words[w])]),
         author      |-> "undefined",
         date        |-> "today",
         description |-> <<>>,
         categories  |-> <<>>,
         featured    |-> "false",
         format      |-> DefaultFormat,
         execute     |-> DefaultExecute]

\* Boolean(v) for a value that is not undefined
BooleanOf(v) == IF v = "false" THEN "false" ELSE "true"

\* what parseQuartoFrontmatter returns or raises
Parsed(threw, isNull, md) == [threw |-> threw, isNull |-> isNull, md |-> md]
ParsedNull == Parsed(FALSE, TRUE, EmptyData)

\* the metadata object built from parsed.data (utils.ts:383-491); hasFormat
\* and hasExecute say whether metadata.format / metadata.execute were set
MetadataFrom(data) ==
    LET formatSource  == IF data.hasFormat THEN data.format ELSE data.rootFormat
        executeSource == IF data.hasExecute THEN data.execute ELSE data.rootExecute
        format  == [k \in FormatKeys |->
                       IF formatSource[k] = "unset" THEN "unset"
                       ELSE IF k \in {"code-fold", "toc-depth", "toc-title"} THEN formatSource[k]
                       ELSE BooleanOf(formatSource[k])]
        execute == [d \in Directives |->
                       IF executeSource[d] = "unset" THEN "unset"
                       ELSE BooleanOf(executeSource[d])]
    IN  [title |-> data.title, description |-> data.description,
         categories |-> data.categories,
         featured |-> IF data.featured = "unset" THEN "unset" ELSE BooleanOf(data.featured),
         hasFormat |-> format # NoFormat, format |-> format,
         hasExecute |-> execute # NoExecute, execute |-> execute,
         rootFormat |-> NoFormat, rootExecute |-> NoExecute]

\* matter(source): raises on YAML that is not well formed, unless its cache
\* already holds this source (cached), in which case it returns no data; a
\* source that does not begin with the delimiter has no data
Matter(source, cached) ==
    IF source.starts = "spaceDashes" THEN [threw |-> FALSE, data |-> EmptyData]
    ELSE IF source.yaml = "malformed"
         THEN [threw |-> ~cached, data |-> EmptyData]
         ELSE [threw |-> FALSE, data |-> source.data]

\* a variant of parseQuartoFrontmatter without the try / catch
ParseQuartoFrontmatter_NoCatch(cell, cached) ==
    IF cell.cell_type # "raw" /\ cell.cell_type # "markdown" THEN ParsedNull
    ELSE IF cell.source.starts = "other" THEN ParsedNull
    ELSE LET parsed == Matter(cell.source, cached)
         IN  IF parsed.threw THEN Parsed(TRUE, TRUE, EmptyData)
             ELSE Parsed(FALSE, FALSE, MetadataFrom(parsed.data))

\* parseQuartoFrontmatter(cell)
ParseQuartoFrontmatter(cell, cached) ==
    IF cell.cell_type # "raw" /\ cell.cell_type # "markdown" THEN ParsedNull
    ELSE IF cell.source.starts = "other" THEN ParsedNull
    ELSE LET parsed == Matter(cell.source, cached)
         IN  IF parsed.threw THEN ParsedNull
             ELSE Parsed(FALSE, FALSE, MetadataFrom(parsed.data))

\* a || b on strings
OrElse(a, b) == IF a # <<>> THEN a ELSE b

\* extractMetadata(notebook, slug): threw, or the metadata returned
ExtractMetadataOf(cs, slug, cached) ==
    LET frontmatterData ==
            IF Len(cs) > 0 /\ cs[1].cell_type \in {"raw", "markdown"}
            THEN ParseQuartoFrontmatter(cs[1], cached)
            ELSE ParsedNull
        defaults == GetDefaultMetadata(slug)
        fm == frontmatterData.md
    IN  IF frontmatterData.threw THEN [threw |-> TRUE, value |-> <<>>]
        ELSE IF ~frontmatterData.isNull
        THEN [threw |-> FALSE,
              value |-> [title       |-> OrElse(fm.title, defaults.title),
                         author      |-> defaults.author,
                         date        |-> defaults.date,
                         description |-> OrElse(fm.description, defaults.description),
                         categories  |-> OrElse(fm.categories, defaults.categories),
                         featured    |-> IF fm.featured # "unset" THEN fm.featured
                                         ELSE defaults.featured,
                         format      |-> [k \in FormatKeys |->
                                             IF fm.format[k] # "unset" THEN fm.format[k]
                                             ELSE defaults.format[k]],
                         execute     |-> [d \in Directives |->
                                             IF fm.execute[d] # "unset" THEN fm.execute[d]
                                             ELSE defaults.execute[d]]]]
        ELSE [threw |-> FALSE, value |-> defaults]

\* slugs
Slugs == SeqsUpTo({"a", "b", "-"}, MaxSlugLen)

\* execute mappings that set at most MaxSetDirectives directives, and one
\* with a value that is not a boolean (echo: fenced)
ExecuteInputs ==
    {x \in [Directives -> TriState] :
        Cardinality({d \in Directives : x[d] # "unset"}) <= MaxSetDirectives}
    \cup {[NoExecute EXCEPT !.echo = "fenced"]}

FormatInputs ==
    { NoFormat,
      [NoFormat EXCEPT !["code-fold"] = "true"],
      [NoFormat EXCEPT !["toc"] = "false", !["toc-depth"] = "2"] }

\* front matter with its execute and format options nested under their keys
NestedData(title, format, execute) ==
    FrontData(title, "unset", format # NoFormat, format, execute # NoExecute, execute,
              NoFormat, NoExecute)

\* front matter with its execute and format options at the document root
RootData(title, format, execute) ==
    FrontData(title, "unset", FALSE, NoFormat, FALSE, NoExecute, format, execute)

\* first cells of the notebooks whose metadata is extracted for every slug
FirstCellChoices ==
    { MetaCell("code", PlainSource, "unset", "unset"),
      MetaCell("raw", PlainSource, "unset", "unset"),
      MetaCell("markdown", PlainSource, "unset", "unset"),
      MetaCell("raw", CellSource("dashes", "malformed", EmptyData), "unset", "unset"),
      MetaCell("markdown", CellSource("dashes", "malformed", EmptyData), "unset", "unset"),
      MetaCell("raw", CellSource("spaceDashes", "mapping",
                                 NestedData(<<"T">>, NoFormat, NoExecute)), "unset", "unset"),
      MetaCell("raw", CellSource("dashes", "mapping",
                                 NestedData(<<"T">>, NoFormat, NoExecute)), "unset", "unset"),
      MetaCell("raw", CellSource("dashes", "mapping",
                                 FrontData(<<>>, "true", TRUE,
                                           [NoFormat EXCEPT !["code-fold"] = "true"],
                                           TRUE, [NoExecute EXCEPT !.echo = "false"],
                                           NoFormat, [NoExecute EXCEPT !.echo = "true"])),
               "unset", "unset"),
      \* format: {code-fold: true} and execute: {echo: false} nested, with
      \* toc: false and warning: false hoisted at the root
      MetaCell("raw", CellSource("dashes", "mapping",
                                 FrontData(<<>>, "unset", TRUE,
                                           [NoFormat EXCEPT !["code-fold"] = "true"],
                                           TRUE, [NoExecute EXCEPT !.echo = "false"],
                                           [NoFormat EXCEPT !["toc"] = "false"],
                                           [NoExecute EXCEPT !.warning = "false"])),
               "unset", "unset") }

\* the notebook as loaded by getProjectBySlug, before its metadata is extracted
InitMeta ==
    /\ \/ /\ mSlug \in Slugs
          /\ \/ mContent = <<>>
             \/ \E c \in FirstCellChoices : mContent = <<c>>
             \/ \E c \in FirstCellChoices :
                   mContent = <<c, MetaCell("code", PlainSource, "unset", "unset")>>
       \/ /\ mSlug = <<"a", "-", "b">>
          /\ \E ct \in {"raw", "markdown"}, nested \in BOOLEAN,
                x \in ExecuteInputs, f \in FormatInputs,
                echo \in TriState, cf \in {"unset", "show"} :
                mContent =
                    << MetaCell(ct,
                                CellSource("dashes", "mapping",
                                           IF nested THEN NestedData(<<>>, f, x)
                                           ELSE RootData(<<>>, f, x)),
                                "unset", "unset"),
                       MetaCell("code", PlainSource, echo, cf) >>
    /\ mCells = mContent
    /\ mpc = "args"
    /\ mMetadata = <<>> /\ mCodeVisibility = <<>>
    /\ IdleMOthers

\* extractMetadata(notebook, slug), called by getProjectBySlug on the notebook
\* as loaded and by the project page on the notebook it passes on
ExtractMetadata ==
    /\ mpc \in {"args", "stripped"}
    /\ \E cached \in BOOLEAN :
          LET r == ExtractMetadataOf(mCells, mSlug, cached)
          IN  /\ mpc' = IF r.threw THEN "threw"
                        ELSE IF mpc = "args" THEN "returned" ELSE "extracted"
              /\ mMetadata' = r.value
    /\ UNCHANGED <<mSlug, mContent, mCells, mCodeVisibility, allButM>>

\* project page, notebook branch: "Filter out the frontmatter cell"
StripFrontmatter ==
    /\ mpc = "returned"
    /\ mCells' = IF /\ Len(mCells) > 0
                    /\ mCells[1].cell_type \in {"raw", "markdown"}
                    /\ mCells[1].source.starts # "other"
                 THEN Tail(mCells)
                 ELSE mCells
    /\ mpc' = "stripped"
    /\ UNCHANGED <<mSlug, mContent, mMetadata, mCodeVisibility, allButM>>

\* <NotebookRenderer notebook={notebookData} metadata={notebookMetadata} />:
\* the initial code visibility of every code cell
NotebookRendererMount ==
    /\ mpc = "extracted"
    /\ mCodeVisibility' =
          [i \in {j \in 1..Len(mCells) : mCells[j].cell_type = "code"} |->
              InitialCodeVisible(mCells[i], mMetadata.execute)]
    /\ mpc' = "rendered"
    /\ UNCHANGED <<mSlug, mContent, mCells, mMetadata, allButM>>

NextMeta == ExtractMetadata \/ StripFrontmatter \/ NotebookRendererMount

SpecMeta == InitMeta /\ [][NextMeta]_vars

\* the notebook given to extractMetadata has no usable front matter: no first
\* cell, a code cell, a source that does not start with '---', malformed YAML
NoFrontMatter(cs) ==
    \/ Len(cs) = 0
    \/ cs[1].cell_type = "code"
    \/ cs[1].source.starts # "dashes"
    \/ cs[1].source.yaml = "malformed"

\* the slug split on hyphens with each word capitalized, character by character
TitleOfSlug(title, slug) ==
    /\ Len(title) = Len(slug)
    /\ \A i \in 1..Len(slug) :
          title[i] = IF slug[i] = "-" THEN " "
                     ELSE IF i = 1 \/ slug[i - 1] = "-" THEN ToUpperCase(slug[i])
                     ELSE slug[i]

\* C16: extractMetadata never raises; when the notebook has no first cell, or
\* its first cell is a code cell, does not start with '---' or holds malformed
\* YAML, it returns getDefaultMetadata(slug): the title is the slug split on
\* hyphens with each word capitalized, description and categories are empty,
\* featured is false, the format options are {code-fold: false, code-tools:
\* false, code-line-numbers: false, toc: true, toc-depth: 3, toc-title:
\* Contents} and every execute option is true.
C16_DefaultsWithoutFrontMatter ==
    /\ mpc # "threw"
    /\ (mpc \in {"returned", "extracted"} /\ NoFrontMatter(mCells)) =>
          /\ mMetadata = GetDefaultMetadata(mSlug)
          /\ mSlug # <<>> => TitleOfSlug(mMetadata.title, mSlug)
          /\ mMetadata.description = <<>>
          /\ mMetadata.categories = <<>>
          /\ mMetadata.featured = "false"
          /\ mMetadata.format["code-fold"] = "false"
          /\ mMetadata.format["code-tools"] = "false"
          /\ mMetadata.format["code-line-numbers"] = "false"
          /\ mMetadata.format["toc"] = "true"
          /\ mMetadata.format["toc-depth"] = "3"
          /\ mMetadata.format["toc-title"] = "Contents"
          /\ \A d \in Directives : mMetadata.execute[d] = "true"

\* malformed YAML in the first cell of the notebook of slug a-b: "A B"
C16_Witness ==
    /\ mpc = "returned"
    /\ mSlug = <<"a", "-", "b">>
    /\ Len(mCells) > 0 /\ mCells[1].source.yaml = "malformed"
    /\ mMetadata.title = <<"A", " ", "B">>

\* the execute mapping the front matter of the loaded notebook declares
Declared(cs) ==
    IF cs[1].source.data.hasExecute THEN cs[1].source.data.execute
    ELSE cs[1].source.data.rootExecute

HasFrontMatter(cs) ==
    /\ Len(cs) > 0
    /\ cs[1].cell_type \in {"raw", "markdown"}
    /\ cs[1].source.starts = "dashes"
    /\ cs[1].source.yaml = "mapping"

\* C17: on the project page, a directive the front matter of the notebook sets
\* to false is false in the global options the renderer works with, and with
\* echo: false a code cell without a cell-level echo or code-fold option
\* starts with its code hidden.
C17_FrontMatterIsGlobalTier ==
    (mpc = "rendered" /\ HasFrontMatter(mContent)) =>
        /\ \A d \in Directives :
              Declared(mContent)[d] = "false" => mMetadata.execute[d] = "false"
        /\ Declared(mContent).echo = "false" =>
              \A i \in DOMAIN mCodeVisibility :
                  (mCells[i].echo = "unset" /\ mCells[i].codefold = "unset")
                      => ~mCodeVisibility[i]

(***************************************************************************)
(* Cell identities                                                         *)
(***************************************************************************)
\* C18: in the mounted renderer the cells at different positions have
\* different identities, and the visibility map has one key per code cell.
\* (generateCellId reads cell.id, cell.cell_type and the index only, so the
\* identity of a cell does not depend on its source.)
C18_PositionsHaveDistinctIdentities ==
    phase = "mounted" =>
        /\ \A i, j \in Positions : i # j => CellId(i) # CellId(j)
        /\ Cardinality(DOMAIN cellCodeVisibility) = Cardinality(CodePositions)

(***************************************************************************)
(* InteractiveTable (src/unnamed/part_003)                                 *)
(*                                                                         *)
(* A table cell is what the comparison asks of its text: whether          *)
(* parseFloat gives a number (num) and which (n), and the rank of the     *)
(* text under localeCompare (s).  Columns are numbered from 0 as in the   *)
(* code; row r of a table is tableRows[r + 1].                            *)
(***************************************************************************)
rowsPerPage == 10

TableCell(num, n, s) == [num |-> num, n |-> n, s |-> s]

\* a table of n rows and two columns: numbers out of order with ties, and
\* texts out of order with ties
TableOf(n) ==
    [i \in 1..n |-> << TableCell(TRUE, (i * 7) % 5, (i * 7) % 5),
                       TableCell(FALSE, 0, (i * 3) % 4) >>]

\* tables whose first column mixes numbers and text: the cells '10' and '9'
\* (parseFloat gives 10 and 9; as text '10' comes before '9') and 'abc'
\* (parseFloat gives NaN; as text it comes after both)
MixedTables ==
    LET ten == <<TableCell(TRUE, 10, 1), TableCell(FALSE, 0, 1)>>
        nine == <<TableCell(TRUE, 9, 2), TableCell(FALSE, 0, 2)>>
        abc == <<TableCell(FALSE, 0, 3), TableCell(FALSE, 0, 3)>>
    IN  { <<ten, nine, abc>>, <<abc, ten, nine>>, <<nine, abc, ten>> }

TableColumns == {0, 1}

TableSizes == {0, 1, 2, 3, 9, 10, 11, 12, 20, MaxRows}

\* the comparator of sortedRows: negative, zero or positive
CompareRows(a, b, column, direction) ==
    LET aVal == a[column + 1]
        bVal == b[column + 1]
    IN  IF aVal.num /\ bVal.num
        THEN IF direction = "asc" THEN aVal.n - bVal.n ELSE bVal.n - aVal.n
        ELSE IF direction = "asc" THEN aVal.s - bVal.s ELSE bVal.s - aVal.s

\* x put behind the last row that does not come after it
RECURSIVE InsertRow(_, _, _, _)
InsertRow(sorted, x, column, direction) ==
    IF Len(sorted) > 0 /\ CompareRows(sorted[Len(sorted)], x, column, direction) > 0
    THEN Append(InsertRow(SubSeq(sorted, 1, Len(sorted) - 1), x, column, direction),
                sorted[Len(sorted)])
    ELSE Append(sorted, x)

\* [...rows].sort(comparator): a stable sort
RECURSIVE SortRows(_, _, _, _)
SortRows(rows, k, column, direction) ==
    IF k = 0 THEN <<>>
    ELSE InsertRow(SortRows(rows, k - 1, column, direction), rows[k], column, direction)

\* sortedRows
SortedRows ==
    IF sortColumn = NoColumn \/ sortDirection = "null" THEN tableRows
    ELSE SortRows(tableRows, Len(tableRows), sortColumn, sortDirection)

\* Math.ceil(sortedRows.length / rowsPerPage)
TotalPages == (Len(SortedRows) + rowsPerPage - 1) \div rowsPerPage

NeedsPagination == Len(SortedRows) > rowsPerPage

\* paginatedRows: sortedRows.slice(start, end)
PaginatedRows ==
    IF ~NeedsPagination THEN SortedRows
    ELSE LET start == currentPage * rowsPerPage
             end   == start + rowsPerPage
             last  == IF end < Len(SortedRows) THEN end ELSE Len(SortedRows)
         IN  IF start >= Len(SortedRows) THEN <<>>
             ELSE SubSeq(SortedRows, start + 1, last)

\* a variant of the header click that goes from descending back to ascending
SortAfterClick_NeverUnsorted(column, direction, columnIndex) ==
    IF column = columnIndex
    THEN [column |-> column, direction |-> IF direction = "asc" THEN "desc" ELSE "asc"]
    ELSE [column |-> columnIndex, direction |-> "asc"]

\* the sort state handleHeaderClick sets
SortAfterClick(column, direction, columnIndex) ==
    IF column = columnIndex
    THEN IF direction = "asc" THEN [column |-> column, direction |-> "desc"]
         ELSE IF direction = "desc" THEN [column |-> NoColumn, direction |-> "null"]
         ELSE [column |-> column, direction |-> direction]
    ELSE [column |-> columnIndex, direction |-> "asc"]

\* a variant of the header click that keeps the page
PageAfterHeaderClick_Kept(page) == page

\* setCurrentPage(0)
PageAfterHeaderClick(page) == 0

InitTable ==
    /\ \/ \E n \in TableSizes : tableRows = TableOf(n)
       \/ tableRows \in MixedTables
    /\ disableSorting \in BOOLEAN
    /\ sortColumn = NoColumn /\ sortDirection = "null" /\ currentPage = 0
    /\ tableEvent = NoEvent
    /\ IdleIOthers

\* a variant of the header click that is attached whether or not sorting is
\* disabled
HandleHeaderClick_AlwaysAttached(columnIndex) ==
    /\ LET after == SortAfterClick(sortColumn, sortDirection, columnIndex)
       IN  /\ sortColumn' = after.column
           /\ sortDirection' = after.direction
    /\ currentPage' = PageAfterHeaderClick(currentPage)
    /\ tableEvent' = [kind |-> "header", arg |-> columnIndex]
    /\ UNCHANGED <<tableRows, disableSorting, allButI>>

\* onClick of a column header (not attached when sorting is disabled)
HandleHeaderClick(columnIndex) ==
    /\ ~disableSorting
    /\ LET after == SortAfterClick(sortColumn, sortDirection, columnIndex)
       IN  /\ sortColumn' = after.column
           /\ sortDirection' = after.direction
    /\ currentPage' = PageAfterHeaderClick(currentPage)
    /\ tableEvent' = [kind |-> "header", arg |-> columnIndex]
    /\ UNCHANGED <<tableRows, disableSorting, allButI>>

\* onClick of Previous (disabled on the first page)
ClickPrevious ==
    /\ NeedsPagination /\ currentPage # 0
    /\ currentPage' = IF currentPage - 1 > 0 THEN currentPage - 1 ELSE 0
    /\ tableEvent' = [kind |-> "previous", arg |-> 0]
    /\ UNCHANGED <<tableRows, disableSorting, sortColumn, sortDirection, allButI>>

\* onClick of Next (disabled on the last page)
ClickNext ==
    /\ NeedsPagination /\ currentPage # TotalPages - 1
    /\ currentPage' = IF currentPage + 1 < TotalPages - 1 THEN currentPage + 1
                      ELSE TotalPages - 1
    /\ tableEvent' = [kind |-> "next", arg |-> 0]
    /\ UNCHANGED <<tableRows, disableSorting, sortColumn, sortDirection, allButI>>

\* onClick of the button of page i
ClickPage(i) ==
    /\ NeedsPagination
    /\ currentPage' = i
    /\ tableEvent' = [kind |-> "page", arg |-> i]
    /\ UNCHANGED <<tableRows, disableSorting, sortColumn, sortDirection, allButI>>

NextTable ==
    \/ \E c \in TableColumns : HandleHeaderClick(c)
    \/ ClickPrevious
    \/ ClickNext
    \/ \E i \in 0..(TotalPages - 1) : ClickPage(i)

SpecTable == InitTable /\ [][NextTable]_vars

\* a header click moves the sort state as stated
HeaderClickStep ==
    tableEvent'.kind = "header" =>
        LET c == tableEvent'.arg
        IN  IF sortColumn = c /\ sortDirection = "asc"
            THEN sortColumn' = c /\ sortDirection' = "desc"
            ELSE IF sortColumn = c /\ sortDirection = "desc"
            THEN sortColumn' = NoColumn /\ sortDirection' = "null"
            ELSE sortColumn' = c /\ sortDirection' = "asc"

\* C19: a click on the header of a column the table is not sorted by sorts the
\* table ascending by that column; a click on the header of the sorted column
\* goes from ascending to descending and from descending to unsorted; and the
\* unsorted table shows its rows in the original order.
C19_SortCycle ==
    /\ [][HeaderClickStep]_vars
    /\ []((sortColumn = NoColumn /\ sortDirection = "null") => SortedRows = tableRows)

\* back to unsorted by a header click, on a table the sort had reordered
C19_Witness ==
    /\ tableEvent.kind = "header"
    /\ sortColumn = NoColumn /\ sortDirection = "null"
    /\ SortRows(tableRows, Len(tableRows), tableEvent.arg, "desc") # tableRows
    /\ SortedRows = tableRows

\* rows 10p .. 10p + 9 of the sorted list, as far as they exist
PageOfSorted(p) ==
    LET n     == Len(SortedRows)
        count == IF n - rowsPerPage * p > rowsPerPage THEN rowsPerPage
                 ELSE IF n - rowsPerPage * p > 0 THEN n - rowsPerPage * p ELSE 0
    IN  [k \in 1..count |-> SortedRows[rowsPerPage * p + k]]

SortChanged == sortColumn' # sortColumn \/ sortDirection' # sortDirection

\* C20, as stated: the table paginates exactly when it has more than 10 rows;
\* the page index is within 0 .. ceil(n / 10) - 1; the rows displayed are rows
\* 10p .. 10p + 9 of the sorted list; a header click that changes the sort
\* sets the page to 0.
C20_PageInRange ==
    /\ [](/\ NeedsPagination <=> Len(tableRows) > 10
          /\ currentPage \in 0..(((Len(tableRows) + 9) \div 10) - 1)
          /\ PaginatedRows = PageOfSorted(currentPage))
    /\ [][(tableEvent'.kind = "header" /\ SortChanged) => currentPage' = 0]_vars

\* C20, amended: as stated for tables with at least one row; a table without
\* rows stays at page index 0 and displays no row.
C20_PageInRangeOrEmpty ==
    /\ [](/\ NeedsPagination <=> Len(tableRows) > 10
          /\ IF Len(tableRows) = 0 THEN currentPage = 0
             ELSE currentPage \in 0..(((Len(tableRows) + 9) \div 10) - 1)
          /\ PaginatedRows = PageOfSorted(currentPage))
    /\ [][(tableEvent'.kind = "header" /\ SortChanged) => currentPage' = 0]_vars

\* the third page of a table of more than 20 rows sorted descending
C20_Witness ==
    /\ Len(tableRows) > 20
    /\ sortDirection = "desc"
    /\ currentPage = 2
    /\ Len(PaginatedRows) = Len(tableRows) - 20

(***************************************************************************)
(* HtmlOutput (src/unnamed/part_006) and sanitizeHtml (lib/notebook/utils) *)
(*                                                                         *)
(* An HTML string is a sequence of fragments:                              *)
(*   "text"        markup without a table or a script tag                  *)
(*   "table"       <table> with a header row and data rows                 *)
(*   "tableNoRows" <table> without rows                                    *)
(*   "script"      <script>...</script>                                    *)
(*   "SCRIPT"      <SCRIPT>...</SCRIPT>                                    *)
(*   "scriptOpen"  <script src=...> without a closing tag                  *)
(*   "SCRIPTOpen"  <SCRIPT SRC=...> without a closing tag                  *)
(***************************************************************************)
HtmlFragments ==
    {"text", "table", "tableNoRows", "script", "SCRIPT", "scriptOpen", "SCRIPTOpen"}

\* html.includes('<table')
IncludesTable(html) == \E i \in 1..Len(html) : html[i] \in {"table", "tableNoRows"}

\* html.includes('<script'): the comparison is case-sensitive
IncludesScript(html) == \E i \in 1..Len(html) : html[i] \in {"script", "scriptOpen"}

\* extractTableFromHtml(html) is not null: the first <table> has rows
ExtractsTable(html) ==
    /\ IncludesTable(html)
    /\ LET first == CHOOSE i \in 1..Len(html) :
                       /\ html[i] \in {"table", "tableNoRows"}
                       /\ \A j \in 1..(i - 1) : html[j] \notin {"table", "tableNoRows"}
       IN  html[first] = "table"

\* the first fragment behind i that holds a closing </script> (0: none); the
\* pattern of sanitizeHtml ignores case
ClosingAfter(html, i) ==
    LET S == {j \in (i + 1)..Len(html) : html[j] \in {"script", "SCRIPT"}}
    IN  IF S = {} THEN 0 ELSE CHOOSE j \in S : \A k \in S : j <= k

\* sanitized.replace(/<script\b[^<]*(?:(?!<\/script>)<[^<]*)*<\/script>/gi, ''),
\* from fragment i on
RECURSIVE SanitizeFrom(_, _)
SanitizeFrom(html, i) ==
    IF i > Len(html) THEN <<>>
    ELSE IF html[i] \in {"script", "SCRIPT"} THEN SanitizeFrom(html, i + 1)
    ELSE IF html[i] \in {"scriptOpen", "SCRIPTOpen"} /\ ClosingAfter(html, i) # 0
         THEN SanitizeFrom(html, ClosingAfter(html, i) + 1)
         ELSE <<html[i]>> \o SanitizeFrom(html, i + 1)

\* sanitizeHtml(html)
SanitizeHtml(html) == SanitizeFrom(html, 1)

\* what HtmlOutput returns
HtmlOutputOf(html) ==
    IF ExtractsTable(html)
    THEN [kind |-> "InteractiveTable", sandbox |-> {}, markup |-> <<>>]
    ELSE IF IncludesScript(html)
    THEN [kind |-> "iframe", sandbox |-> {"allow-scripts"}, markup |-> html]
    ELSE [kind |-> "innerHTML", sandbox |-> {}, markup |-> SanitizeHtml(html)]

InitHtml ==
    /\ hHtml \in SeqsUpTo(HtmlFragments, MaxHtmlLen)
    /\ hpc = "props"
    /\ hRendered = NothingRendered
    /\ IdleHOthers

\* one render of HtmlOutput
HtmlOutputRender ==
    /\ hpc = "props"
    /\ hRendered' = HtmlOutputOf(hHtml)
    /\ hpc' = "rendered"
    /\ UNCHANGED <<hHtml, allButH>>

NextHtml == HtmlOutputRender

SpecHtml == InitHtml /\ [][NextHtml]_vars

\* the string holds a script tag (tag names are not case-sensitive)
HoldsScriptTag(html) ==
    \E i \in 1..Len(html) : html[i] \in {"script", "SCRIPT", "scriptOpen", "SCRIPTOpen"}

\* C21: an HTML output that holds a script tag is rendered in an iframe whose
\* sandbox allows scripts and not same-origin access, or as the text of its
\* table, and never as markup of the host page; markup that is put into the
\* host page is what the sanitizer returned and holds no script tag.
C21_ScriptsNeverInHostPage ==
    hpc = "rendered" =>
        /\ HoldsScriptTag(hHtml) => hRendered.kind \in {"iframe", "InteractiveTable"}
        /\ hRendered.kind = "iframe" => hRendered.sandbox = {"allow-scripts"}
        /\ hRendered.kind = "innerHTML" =>
              /\ hRendered.markup = SanitizeHtml(hHtml)
              /\ ~HoldsScriptTag(hRendered.markup)

(***************************************************************************)
(* getCellSource (src/lib/notebook/utils.ts)                               *)
(* Strings are sequences of characters.                                    *)
(***************************************************************************)
SourceChars == {"a", "b"}

\* a variant of join that puts the default separator of Array.prototype.join
ArrayJoin_Comma(fs) ==
    LET RECURSIVE J(_)
        J(k) == IF k = 0 THEN <<>>
                ELSE IF k = 1 THEN fs[1]
                ELSE J(k - 1) \o <<",">> \o fs[k]
    IN  J(Len(fs))

\* cell.source.join('')
ArrayJoin(fs) ==
    LET RECURSIVE J(_)
        J(k) == IF k = 0 THEN <<>>
                ELSE IF k = 1 THEN fs[1]
                ELSE J(k - 1) \o fs[k]
    IN  J(Len(fs))

\* getCellSource(cell), for the source of the cell
GetCellSource(source) ==
    IF source.form = "string" /\ source.str = <<>> THEN <<>>
    ELSE IF source.form = "string" THEN source.str
    ELSE ArrayJoin(source.fragments)

InitSource ==
    /\ \/ \E s \in SeqsUpTo(SourceChars, MaxSourceLen) : gSource = SourceString(s)
       \/ \E fs \in SeqsUpTo(SeqsUpTo(SourceChars, 2), MaxFragments) : gSource = SourceArray(fs)
    /\ gpc = "args"
    /\ gResult = <<>>
    /\ IdleGOthers

\* one call of getCellSource
GetCellSourceCall ==
    /\ gpc = "args"
    /\ gResult' = GetCellSource(gSource)
    /\ gpc' = "returned"
    /\ UNCHANGED <<gSource, allButG>>

NextSource == GetCellSourceCall

SpecSource == InitSource /\ [][NextSource]_vars

\* the number of characters in the first k fragments
RECURSIVE LenUpTo(_, _)
LenUpTo(fs, k) == IF k = 0 THEN 0 ELSE LenUpTo(fs, k - 1) + Len(fs[k])

\* s is the concatenation of the fragments: character c of fragment k is
\* character LenUpTo(fs, k - 1) + c of s
IsConcatenation(s, fs) ==
    /\ Len(s) = LenUpTo(fs, Len(fs))
    /\ \A k \in 1..Len(fs) : \A c \in 1..Len(fs[k]) :
          s[LenUpTo(fs, k - 1) + c] = fs[k][c]

\* C22: getCellSource returns a string source unchanged and, for an array of
\* fragments, their concatenation with nothing between them, which is what
\* it returns for that concatenation given as one string.
C22_SourceFormsAgree ==
    gpc = "returned" =>
        /\ gSource.form = "string" => gResult = gSource.str
        /\ gSource.form = "array" =>
              /\ IsConcatenation(gResult, gSource.fragments)
              /\ GetCellSource(SourceString(gResult)) = gResult

\* "ab" given as ["a", "", "b"]
C22_Witness ==
    /\ gpc = "returned"
    /\ gSource = SourceArray(<< <<"a">>, <<>>, <<"b">> >>)
    /\ gResult = <<"a", "b">>

(***************************************************************************)
(* Always-visible code cells                                               *)
(***************************************************************************)
\* C23: in a notebook whose code cells have distinct identities and whose
\* document-level echo is not false, the code of a rendered code cell without
\* code-fold directive whose echo resolves true is on screen in every state
\* of the mounted renderer.
C23_AlwaysVisibleCode ==
    (phase = "mounted" /\ DistinctIds /\ metadata.echo # "false") =>
        \A i \in CodePositions :
            (/\ cells[i].codefold = "unset"
             /\ CellRendered(i)
             /\ ShouldRenderCode(cells[i], GlobalOptions)) => CodeDisplayed(i)

(***************************************************************************)
(* Order of the validator's checks                                         *)
(***************************************************************************)
\* the checks cell c at index i violates, each with its place in the order
\* and the error that reports it
CellViolations(c, i) ==
    LET at(k, text) == [rank |-> 10 * (i + 1) + k, err |-> Err(text, i)]
    IN  {v \in { at(1, "Cell at index i must be an object"),
                 at(2, "Cell at index i is missing required field: cell_type"),
                 at(3, "Cell at index i has invalid cell_type: must be a string"),
                 at(4, "Cell at index i has invalid cell_type: must be one of code, markdown, raw"),
                 at(5, "Cell at index i is missing required field: source"),
                 at(6, "Cell at index i has invalid source field"),
                 at(7, "Cell at index i has invalid outputs field: must be an array"),
                 at(8, "Cell at index i has invalid execution_count") } :
            LET k == v.rank - 10 * (i + 1)
            IN  \/ k = 1 /\ c.t # "object"
                \/ k = 2 /\ c.cell_type = "absent"
                \/ k = 3 /\ c.cell_type = "nonstring"
                \/ k = 4 /\ c.cell_type \notin {"code", "markdown", "raw"}
                \/ k = 5 /\ c.source = "absent"
                \/ k = 6 /\ c.source \notin {"string", "strings"}
                \/ k = 7 /\ c.cell_type = "code" /\ c.outputs \notin {"absent", "array"}
                \/ k = 8 /\ c.cell_type = "code"
                         /\ c.execution_count \notin {"absent", "null", "number"}}

\* the checks document d violates; the ranks follow the stated order: the
\* document, nbformat, cells, each cell by index, metadata
Violations(d) ==
    LET top(k, text) == [rank |-> k, err |-> Err(text, -1)]
        n == IF d.cells.t = "array" THEN Len(d.cells.v) ELSE 0
    IN  {v \in { top(1, "Notebook must be an object"),
                 top(2, "Notebook is missing required field: nbformat"),
                 top(3, "Notebook nbformat field must be a number"),
                 top(4, "Notebook nbformat must be 4 or greater"),
                 top(5, "Notebook is missing required field: cells"),
                 top(6, "Notebook cells field must be an array") } :
            \/ v.rank = 1 /\ d.t # "object"
            \/ v.rank = 2 /\ d.nbformat.t = "absent"
            \/ v.rank = 3 /\ d.nbformat.t # "number"
            \/ v.rank = 4 /\ d.nbformat.t = "number" /\ d.nbformat.v < 4
            \/ v.rank = 5 /\ d.cells.t = "absent"
            \/ v.rank = 6 /\ d.cells.t # "array"}
        \cup UNION {CellViolations(d.cells.v[i + 1], i) : i \in 0..(n - 1)}
        \cup (IF d.metadata.t \notin {"absent", "null", "object"}
              THEN {[rank |-> 10 * (n + 1) + 1,
                     err |-> Err("Notebook metadata field must be an object", -1)]}
              ELSE {})

\* the violation that comes first in the order
FirstViolation(d) ==
    CHOOSE v \in Violations(d) : \A w \in Violations(d) : v.rank <= w.rank

\* C24: validateNotebook accepts a document that violates no check and
\* otherwise reports the violated check that comes first in the order:
\* document, nbformat (missing, not a number, below 4), cells (missing, not an
\* array), the cells by index (object, cell_type, source, and for code cells
\* outputs, then execution_count), metadata.
C24_FirstViolationReported ==
    vpc \in {"validated", "rejected"} =>
        IF Violations(doc) = {} THEN verr = OkResult /\ vpc = "validated"
        ELSE verr = FirstViolation(doc).err /\ vpc = "rejected"

\* a code cell at index 1 with a malformed outputs field and a malformed
\* execution_count, behind a markdown cell that carries both fields, in a
\* document whose metadata is malformed too
C24_Witness ==
    /\ vpc = "rejected"
    /\ verr = Err("Cell at index i has invalid outputs field: must be an array", 1)
    /\ Cardinality(Violations(doc)) >= 3
    /\ doc.cells.v[1].cell_type = "markdown" /\ doc.cells.v[1].outputs = "object"

(***************************************************************************)
(* Front-matter options nested under their key or hoisted to the root      *)
(***************************************************************************)
\* the value the front matter gives an option: the one in the nested block
\* if the block defines it, otherwise the one at the root
ValueIn(hasBlock, block, root, k) ==
    IF hasBlock /\ block[k] # "unset" THEN block[k] ELSE root[k]

\* the value as the parser stores it (Boolean(), or as written)
Stored(k, v) ==
    IF k \in {"code-fold", "toc-depth", "toc-title"} THEN v ELSE BooleanOf(v)

\* C25: in the metadata extracted from a notebook with front matter, every
\* format key and every execute key has the value of the nested format /
\* execute block if the block defines the key, otherwise the value hoisted at
\* the document root if there is one, otherwise the default.
C25_NestedThenRootThenDefault ==
    (mpc = "returned" /\ HasFrontMatter(mContent)) =>
        LET data == mContent[1].source.data
        IN  /\ \A k \in FormatKeys :
                  LET v == ValueIn(data.hasFormat, data.format, data.rootFormat, k)
                  IN  mMetadata.format[k] =
                          IF v # "unset" THEN Stored(k, v) ELSE DefaultFormat[k]
            /\ \A d \in Directives :
                  LET v == ValueIn(data.hasExecute, data.execute, data.rootExecute, d)
                  IN  mMetadata.execute[d] =
                          IF v # "unset" THEN Stored(d, v) ELSE DefaultExecute[d]

(***************************************************************************)
(* Heading anchors: the ids generateTableOfContents gives its entries      *)
(* (src/lib/notebook/utils.ts), the ids MarkdownCell gives the heading     *)
(* elements (src/unnamed/part_002), and the clicks of TableOfContents      *)
(*                                                                         *)
(* A heading is its level and its inline content, a sequence of parts:    *)
(* plain text, or text in strong emphasis (written **text** in the cell   *)
(* source, rendered as an element).  An id `heading-${cellIndex}-${slug}` *)
(* is the pair of its cell index and its slug: the index is a number      *)
(* followed by '-', so two ids are the same string exactly when the pairs  *)
(* are the same.                                                           *)
(***************************************************************************)
Txt(chars) == [kind |-> "text", chars |-> chars]
Strong(chars) == [kind |-> "strong", chars |-> chars]

\* the inline content of a heading as written in the cell source
RECURSIVE RawText(_)
RawText(parts) ==
    IF Len(parts) = 0 THEN <<>>
    ELSE (IF parts[1].kind = "strong"
          THEN <<"*", "*">> \o parts[1].chars \o <<"*", "*">>
          ELSE parts[1].chars) \o RawText(Tail(parts))

\* String(x) for an object that is not a string: '[object Object]'
ObjectString ==
    <<"[", "o", "b", "j", "e", "c", "t", " ", "O", "b", "j", "e", "c", "t", "]">>

\* String(children): the children of the heading element joined with ',',
\* a text node as its text and an element as '[object Object]'
RECURSIVE StringOfChildren(_)
StringOfChildren(parts) ==
    IF Len(parts) = 0 THEN <<>>
    ELSE LET first == IF parts[1].kind = "text" THEN parts[1].chars ELSE ObjectString
         IN  IF Len(parts) = 1 THEN first
             ELSE first \o <<",">> \o StringOfChildren(Tail(parts))

\* String.prototype.trim
RECURSIVE Trim(_)
Trim(s) ==
    IF Len(s) = 0 THEN s
    ELSE IF s[1] = " " THEN Trim(Tail(s))
    ELSE IF s[Len(s)] = " " THEN Trim(SubSeq(s, 1, Len(s) - 1))
    ELSE s

\* String.prototype.toLowerCase, one character
ToLowerCase(c) ==
    IF c = "A" THEN "a" ELSE IF c = "B" THEN "b" ELSE IF c = "O" THEN "o" ELSE c

\* \w, among the characters that occur
WordChars == {"a", "b", "c", "e", "j", "o", "t", "A", "B", "O"}

\* .replace(/\s+/g, '-')
RECURSIVE ReplaceSpaces(_)
ReplaceSpaces(s) ==
    IF Len(s) = 0 THEN s
    ELSE IF s[1] # " " THEN <<s[1]>> \o ReplaceSpaces(Tail(s))
    ELSE IF Len(s) > 1 /\ s[2] = " " THEN ReplaceSpaces(Tail(s))
    ELSE <<"-">> \o ReplaceSpaces(Tail(s))

\* text.toLowerCase().replace(/[^\w\s-]/g, '').replace(/\s+/g, '-')
Slugify(text) ==
    LET lower == [i \in 1..Len(text) |-> ToLowerCase(text[i])]
        kept(c) == c \in WordChars \cup {" ", "-"}
    IN  ReplaceSpaces(SelectSeq(lower, kept))

\* the id of a TOC entry (utils.ts:106-112)
TocEntryId(cellIndex, matched) ==
    [cellIndex |-> cellIndex, slug |-> Slugify(Trim(matched))]

\* generateHeadingId(cellIndex, text) (part_002:183-188)
GenerateHeadingId(cellIndex, text) ==
    [cellIndex |-> cellIndex, slug |-> Slugify(text)]

\* a markdown cell: the levels of its heading lines and their inline content
AnchorCell(hs) ==
    [cell_type |-> "markdown",
     lines |-> [j \in 1..Len(hs) |-> hs[j].level],
     texts |-> [j \in 1..Len(hs) |-> hs[j].parts]]

\* the headings of the cells from cell i on, in document order
RECURSIVE HeadingsFrom(_, _)
HeadingsFrom(cs, i) ==
    IF i > Len(cs) THEN <<>>
    ELSE [j \in 1..Len(cs[i].lines) |->
             [cellIndex |-> i - 1, level |-> cs[i].lines[j], parts |-> cs[i].texts[j]]]
         \o HeadingsFrom(cs, i + 1)

\* the entries of generateTableOfContents(notebook) with their ids
TocEntriesOf(cs) ==
    LET st == GenerateTableOfContentsOf(cs)
        hs == HeadingsFrom(cs, 1)
    IN  [k \in 1..Len(st.entries) |->
            [id       |-> TocEntryId(hs[k].cellIndex, RawText(hs[k].parts)),
             level    |-> st.entries[k].level,
             children |-> st.entries[k].children]]

\* the ids of the h1..h6 elements the markdown cells render
HeadingElementsOf(cs) ==
    LET hs == HeadingsFrom(cs, 1)
    IN  [k \in 1..Len(hs) |->
            GenerateHeadingId(hs[k].cellIndex, StringOfChildren(hs[k].parts))]

\* a TocEntryItem is rendered when none of its ancestors is collapsed
RECURSIVE EntryShown(_, _, _)
EntryShown(entries, collapsed, k) ==
    \A p \in ParentsOf(entries, k) :
        entries[p].id \notin collapsed /\ EntryShown(entries, collapsed, p)

\* document.getElementById(id): the first element with the id, 0 if none
GetElementById(dom, id) ==
    IF \E e \in 1..Len(dom) : dom[e] = id
    THEN CHOOSE e \in 1..Len(dom) :
             dom[e] = id /\ \A f \in 1..(e - 1) : dom[f] # id
    ELSE 0

AnchorTexts ==
    { <<Txt(<<"a">>)>>, <<Txt(<<"B", " ", "c">>)>>, <<Strong(<<"a">>)>> }

AnchorHeadings == [level : {1, 2}, parts : AnchorTexts]

\* one markdown cell with its headings, or two with the first heading in a
\* cell of its own
InitAnchors ==
    /\ \E hs \in SeqsUpTo(AnchorHeadings, MaxAnchorHeadings) :
          \/ aCells = <<AnchorCell(hs)>>
          \/ Len(hs) > 0 /\ aCells = <<AnchorCell(<<hs[1]>>), AnchorCell(Tail(hs))>>
    /\ apc = "props"
    /\ aEntries = <<>> /\ aDom = <<>>
    /\ aCollapsed = {} /\ aTarget = 0 /\ aEvent = NoEvent
    /\ IdleAOthers

\* NotebookRenderer renders: tocEntries = generateTableOfContents(notebook),
\* and every markdown cell renders its headings
RenderAnchors ==
    /\ apc = "props"
    /\ aEntries' = TocEntriesOf(aCells)
    /\ aDom' = HeadingElementsOf(aCells)
    /\ apc' = "mounted"
    /\ UNCHANGED <<aCells, aCollapsed, aTarget, aEvent, allButA>>

\* handleNavigate(entry.id), from a click on the row of entry k
HandleNavigate(k) ==
    /\ apc = "mounted"
    /\ EntryShown(aEntries, aCollapsed, k)
    /\ LET element == GetElementById(aDom, aEntries[k].id)
       IN  aTarget' = IF element # 0 THEN element ELSE aTarget
    /\ aEvent' = [kind |-> "navigate", arg |-> k]
    /\ UNCHANGED <<aCells, apc, aEntries, aDom, aCollapsed, allButA>>

\* handleToggleCollapse(entry.id), from a click on the button of entry k
HandleToggleCollapse(k) ==
    /\ apc = "mounted"
    /\ EntryShown(aEntries, aCollapsed, k)
    /\ Len(aEntries[k].children) > 0
    /\ aCollapsed' = IF aEntries[k].id \in aCollapsed
                     THEN aCollapsed \ {aEntries[k].id}
                     ELSE aCollapsed \cup {aEntries[k].id}
    /\ aEvent' = [kind |-> "collapse", arg |-> k]
    /\ UNCHANGED <<aCells, apc, aEntries, aDom, aTarget, allButA>>

NextAnchors ==
    \/ RenderAnchors
    \/ \E k \in 1..Len(aEntries) : HandleNavigate(k)
    \/ \E k \in 1..Len(aEntries) : HandleToggleCollapse(k)

SpecAnchors == InitAnchors /\ [][NextAnchors]_vars

\* entry k is collapsed
IsCollapsed(collapsed, k) == aEntries[k].id \in collapsed

\* C26: on the mounted page every TOC entry has the id of the heading element
\* of its own heading and no other heading element has that id; a click on an
\* entry scrolls to its own heading, and a click on the collapse button of an
\* entry changes the collapsed state of no other entry.
C26_AnchorsResolve ==
    /\ [](apc = "mounted" =>
            \A k \in 1..Len(aEntries) :
                /\ aDom[k] = aEntries[k].id
                /\ \A j \in 1..Len(aDom) : j # k => aDom[j] # aEntries[k].id)
    /\ [](aEvent.kind = "navigate" => aTarget = aEvent.arg)
    /\ [][\A k \in 1..Len(aEntries) :
             HandleToggleCollapse(k) =>
                 \A j \in 1..Len(aEntries) :
                     j # k => (IsCollapsed(aCollapsed', j) <=> IsCollapsed(aCollapsed, j))]_vars

(***************************************************************************)
(* The order of a sorted column                                            *)
(***************************************************************************)
\* every cell of the column parses as a number
AllNumeric(rows, column) ==
    \A i \in 1..Len(rows) : rows[i][column + 1].num

\* one rule for the whole column: by value if every cell is a number, as
\* text otherwise (negative, zero or positive, ascending)
ColumnCompare(rows, column, a, b) ==
    IF AllNumeric(rows, column) THEN a[column + 1].n - b[column + 1].n
    ELSE a[column + 1].s - b[column + 1].s

\* C27: the rows of a sorted table are in the order of one rule for the whole
\* column, numeric if every cell of the column parses as a number and
\* lexicographic otherwise: ascending, or the reverse when descending.
C27_OneRulePerColumn ==
    (sortColumn # NoColumn /\ sortDirection \in {"asc", "desc"}) =>
        \A i, j \in 1..Len(SortedRows) :
            i < j =>
                LET c == ColumnCompare(tableRows, sortColumn, SortedRows[i], SortedRows[j])
                IN  IF sortDirection = "asc" THEN c <= 0 ELSE c >= 0

(***************************************************************************)
(* The sort state of the interactive table                                 *)
(***************************************************************************)
\* C30: in every state of the interactive table the sort column is null
\* exactly when the sort direction is null; and in a table with sorting
\* disabled no step changes the sort column or the sort direction, which stay
\* null.
C30_SortStateCoherent ==
    /\ [](sortColumn = NoColumn <=> sortDirection = "null")
    /\ [](disableSorting => (sortColumn = NoColumn /\ sortDirection = "null"))
    /\ [][disableSorting => UNCHANGED <<sortColumn, sortDirection>>]_vars

\* a truncated table of three pages whose reader has paged forward, and so
\* had the chance to act, with the sort state still null
C30_Witness ==
    /\ disableSorting
    /\ tableEvent.kind \in {"next", "page"}
    /\ currentPage = 2
    /\ sortColumn = NoColumn /\ sortDirection = "null"

(***************************************************************************)
(* The 'all visible' indicators and the toggle-all controls                *)
(***************************************************************************)
\* the entry of every code cell is true in the map
EveryEntryTrue(map) ==
    \A i \in CodePositions : MapGet(map, CellId(i), TRUE)

\* C28: in the mounted renderer the 'all code visible' indicator is true
\* exactly when the code entry of every code cell is true, and a
\* toggle-all-code step sets the entry of every code cell to the negation of
\* that: all hidden if all were visible, all visible otherwise.  The same for
\* the output indicator, map and control.
C28_IndicatorMatchesEntries ==
    /\ [](phase = "mounted" =>
            /\ AllVisible(cells, cellCodeVisibility) <=> EveryEntryTrue(cellCodeVisibility)
            /\ AllVisible(cells, cellOutputVisibility) <=> EveryEntryTrue(cellOutputVisibility))
    /\ [][/\ HandleToggleAllCode =>
               \A i \in CodePositions :
                   MapGet(cellCodeVisibility', CellId(i), TRUE)
                       = ~EveryEntryTrue(cellCodeVisibility)
          /\ HandleToggleAllOutput =>
               \A i \in CodePositions :
                   MapGet(cellOutputVisibility', CellId(i), TRUE)
                       = ~EveryEntryTrue(cellOutputVisibility)
         ]_vars

(***************************************************************************)
(* PlotlyOutput (src/unnamed/part_007): the effect that loads the library, *)
(* draws the plot and observes the container                               *)
(*                                                                         *)
(* A run of the effect is the closure of one execution of the effect body: *)
(* its local variables mounted and resizeObserver, and where its async     *)
(* function loadAndRenderPlotly stands (at the await of the import, at the *)
(* await of newPlot, or done).  The code between two awaits runs without   *)
(* interruption.  cleaned and late only record what happened: the cleanup  *)
(* of the run was executed, and the run called setError or setIsLoading    *)
(* after it.                                                               *)
(***************************************************************************)
NewRun ==
    [pc |-> "start", mounted |-> TRUE, observer |-> "none", outcome |-> "none",
     cleaned |-> FALSE, late |-> FALSE]

\* a variant of the guards that never looks at mounted
Mounted_Ignored(run) == TRUE

\* if (mounted)
Mounted(run) == run.mounted

\* containerRef.current: the container is rendered while the component is in
\* the tree and shows no error
ContainerRef == ppc = "mounted" /\ pError = "null"

\* lines 58-86: return if not mounted or without container, else call newPlot
RenderPlot(run, container) ==
    IF ~Mounted(run) \/ ~container
    THEN [run EXCEPT !.pc = "done", !.outcome = "returned"]
    ELSE [run EXCEPT !.pc = "plotting"]

\* loadAndRenderPlotly() up to its first await
LoadAndRenderPlotly(loaded, container) ==
    IF ~loaded THEN [NewRun EXCEPT !.pc = "importing"]
    ELSE RenderPlot(NewRun, container)

\* the cleanup function of a run
Cleanup(run) ==
    [run EXCEPT !.mounted = FALSE,
                !.observer = IF @ # "none" THEN "disconnected" ELSE @,
                !.cleaned = TRUE]

\* the catch block, as far as the run is concerned
Catch(run) ==
    [run EXCEPT !.pc = "done", !.outcome = "failed",
                !.late = @ \/ (Mounted(run) /\ run.cleaned)]

\* lines 93-119, as far as the run is concerned
AfterNewPlot(run, container) ==
    [run EXCEPT !.pc = "done", !.outcome = "plotted",
                !.observer = IF Mounted(run) /\ container THEN "connected" ELSE @,
                !.late = @ \/ (Mounted(run) /\ run.cleaned)]

InitPlotly ==
    /\ ppc = "props"
    /\ pRuns = <<>>
    /\ pError = "null" /\ pIsLoading = TRUE /\ plotlyRef = FALSE
    /\ IdlePOthers

\* the component mounts and the effect runs for the first time
PlotlyMount ==
    /\ ppc = "props"
    /\ ppc' = "mounted"
    /\ pRuns' = <<LoadAndRenderPlotly(plotlyRef, TRUE)>>
    /\ UNCHANGED <<pError, pIsLoading, plotlyRef, allButP>>

\* the data prop changes: the cleanup of the last run, then a new run
DataChange ==
    /\ ppc = "mounted"
    /\ Len(pRuns) < MaxPlotlyRuns
    /\ pRuns' = Append([pRuns EXCEPT ![Len(pRuns)] = Cleanup(@)],
                       LoadAndRenderPlotly(plotlyRef, ContainerRef))
    /\ UNCHANGED <<ppc, pError, pIsLoading, plotlyRef, allButP>>

\* the component leaves the tree: its container is detached
Unmount ==
    /\ ppc = "mounted"
    /\ ppc' = "unmounting"
    /\ UNCHANGED <<pRuns, pError, pIsLoading, plotlyRef, allButP>>

\* the cleanup of the last run, after the component left the tree
UnmountCleanup ==
    /\ ppc = "unmounting"
    /\ ppc' = "unmounted"
    /\ pRuns' = [pRuns EXCEPT ![Len(pRuns)] = Cleanup(@)]
    /\ UNCHANGED <<pError, pIsLoading, plotlyRef, allButP>>

\* await import('plotly.js-dist-min') is fulfilled for run r
ImportResolves(r) ==
    /\ pRuns[r].pc = "importing"
    /\ plotlyRef' = TRUE
    /\ pRuns' = [pRuns EXCEPT ![r] = RenderPlot(@, ContainerRef)]
    /\ UNCHANGED <<ppc, pError, pIsLoading, allButP>>

\* an await of run r is rejected: the catch block
Rejected(r) ==
    /\ pRuns' = [pRuns EXCEPT ![r] = Catch(@)]
    /\ IF Mounted(pRuns[r])
       THEN pError' = "message" /\ pIsLoading' = FALSE
       ELSE UNCHANGED <<pError, pIsLoading>>
    /\ UNCHANGED <<ppc, plotlyRef, allButP>>

ImportFails(r) == pRuns[r].pc = "importing" /\ Rejected(r)

PlotFails(r) == pRuns[r].pc = "plotting" /\ Rejected(r)

\* await newPlot(...) is fulfilled for run r
PlotResolves(r) ==
    /\ pRuns[r].pc = "plotting"
    /\ pRuns' = [pRuns EXCEPT ![r] = AfterNewPlot(@, ContainerRef)]
    /\ IF Mounted(pRuns[r])
       THEN pIsLoading' = FALSE /\ pError' = "null"
       ELSE UNCHANGED <<pError, pIsLoading>>
    /\ UNCHANGED <<ppc, plotlyRef, allButP>>

NextPlotly ==
    \/ PlotlyMount
    \/ DataChange
    \/ Unmount
    \/ UnmountCleanup
    \/ \E r \in 1..Len(pRuns) : ImportResolves(r)
    \/ \E r \in 1..Len(pRuns) : ImportFails(r)
    \/ \E r \in 1..Len(pRuns) : PlotResolves(r)
    \/ \E r \in 1..Len(pRuns) : PlotFails(r)

SpecPlotly == InitPlotly /\ [][NextPlotly]_vars

\* C29: a run whose cleanup has executed has made no state update since and
\* has no connected resize observer; a run that is done and was not cleaned
\* up, in a component still in the tree, has left isLoading false and either
\* drew the plot (no error) or an error message is set.
C29_CleanedRunsAreInert ==
    \A r \in 1..Len(pRuns) :
        /\ pRuns[r].cleaned => (~pRuns[r].late /\ pRuns[r].observer # "connected")
        /\ (pRuns[r].pc = "done" /\ ~pRuns[r].cleaned /\ ppc = "mounted") =>
              /\ ~pIsLoading
              /\ \/ pRuns[r].outcome = "plotted" /\ pError = "null"
                 \/ pError = "message"

\* a run that set up its observer and was then cleaned up by a data change,
\* and a run that was cleaned up while newPlot was pending and went on after
\* that in a component still in the tree
C29_Witness ==
    /\ ppc = "mounted"
    /\ \E r \in 1..Len(pRuns) :
          pRuns[r].cleaned /\ pRuns[r].observer = "disconnected"
    /\ \E r \in 1..Len(pRuns) :
          /\ pRuns[r].cleaned /\ pRuns[r].pc = "done"
          /\ pRuns[r].outcome = "plotted" /\ pRuns[r].observer = "none"
    /\ pRuns[Len(pRuns)].outcome = "plotted" /\ pRuns[Len(pRuns)].observer = "connected"

====
